---- MODULE Spec2Model ----
(***************************************************************************)
(* RetroSpecs screen-capture subsystem: the capture backends               *)
(* (ScreenCapture, WindowCapture, X11DirectCapture, MacOSCapture,          *)
(* Win32Capture) and the capture/render coordinator (GLWidget).            *)
(*                                                                         *)
(* Every object of the program is a record-valued variable; every method   *)
(* is an operator from (object state, arguments, what the OS answers) to   *)
(* a record holding the new object state, the return value and the OS      *)
(* calls the method issued.  Three specifications share the variables:     *)
(*   Spec         the running application: GLWidget, its ScreenCapture,    *)
(*                the overlay / toolbar / grip windows and user events;    *)
(*   SpecBackend  each backend class driven directly through its API;      *)
(*   SpecWalk     the stacking walk applied to drawn stacking orders.      *)
(***************************************************************************)
EXTENDS Integers, Sequences, FiniteSets, TLC

VARIABLES
    app,    \* the Qt application: whether its event loop runs
    obj,    \* what is being driven: "App", a backend class name, or "Walk"
    xenv,   \* X server: [stacking (bottom-to-top), geom (wid -> rect or None)]
    osw,    \* window system: [accepts, flagged] for the capture-exclusion flag
    sc,     \* ScreenCapture object
    wc,     \* WindowCapture object (and its detection thread)
    x11,    \* X11DirectCapture object
    mac,    \* MacOSCapture object
    w32,    \* Win32Capture object
    gl,     \* GLWidget (coordinator) object
    win,    \* overlay / toolbar / grip: opacity and visibility
    last,   \* the last operation run: name, arguments, result, OS calls
    hist    \* history kept for the properties

vars == <<app, obj, xenv, osw, sc, wc, x11, mac, w32, gl, win, last, hist>>

-----------------------------------------------------------------------------
(* Bounds of the model *)

\* windows known to the X server in SpecWalk (the own window is one of them)
NumWin == 4

\* longest on-screen window list CoreGraphics enumerates
MaxEnum == 5

\* set_companion_windows calls made on one backend object
MaxCompanionCalls == 2

\* consecutive WindowCapture.grab calls against one cached target
\* (caps _refresh_counter, which the code resets only every DETECT_INTERVAL grabs)
MaxGrabs == 3

-----------------------------------------------------------------------------
(* Values *)

\* Python's None for a geometry tuple
NoGeom == <<>>

\* Python's None for a frame
NoFrame == [kind |-> "None"]

Frame(src, w, h, own) == [kind |-> "frame", src |-> src, w |-> w, h |-> h, own |-> own]

Rect(x, y, w, h) == <<x, y, w, h>>

Windows == 1 .. NumWin

\* the application's overlay window id
OwnWid == NumWin

Max(S) == CHOOSE m \in S : \A n \in S : n <= m

Min2(a, b) == IF a <= b THEN a ELSE b

Max2(a, b) == IF a >= b THEN a ELSE b

-----------------------------------------------------------------------------
(* Stacking walk: WindowCapture._find_target, X11DirectCapture._find_target_window *)

\* the overlap test both walks use
OverlapTestSwapped(geom, sx, sy, sw, sh) ==
    /\ geom[1] < sx + sw /\ geom[1] + geom[3] > sx
    /\ geom[2] < sy + sh /\ geom[2] + geom[3] > sy

OverlapTest(geom, sx, sy, sw, sh) ==
    /\ geom[1] < sx + sw /\ geom[1] + geom[3] > sx
    /\ geom[2] < sy + sh /\ geom[2] + geom[4] > sy

\* the walk without the found_self test: the first overlapping window from the top
RECURSIVE find_target_walk_any(_, _, _, _, _, _, _, _)
find_target_walk_any(env, own, i, found_self, sx, sy, sw, sh) ==
    IF i = 0 THEN [wid |-> 0, geom |-> NoGeom, found_self |-> found_self]
    ELSE LET wid == env.stacking[i] IN
         IF wid = own
         THEN find_target_walk_any(env, own, i - 1, TRUE, sx, sy, sw, sh)
         ELSE IF env.geom[wid] = NoGeom
         THEN find_target_walk_any(env, own, i - 1, found_self, sx, sy, sw, sh)
         ELSE IF OverlapTest(env.geom[wid], sx, sy, sw, sh)
         THEN [wid |-> wid, geom |-> env.geom[wid], found_self |-> found_self]
         ELSE find_target_walk_any(env, own, i - 1, found_self, sx, sy, sw, sh)

\* for wid in reversed(stacking), from index i down: the first window after the
\* own one whose geometry is readable and overlaps; found_self is carried out
\* because the caller tests it after the loop
RECURSIVE find_target_walk(_, _, _, _, _, _, _, _)
find_target_walk(env, own, i, found_self, sx, sy, sw, sh) ==
    IF i = 0 THEN [wid |-> 0, geom |-> NoGeom, found_self |-> found_self]
    ELSE LET wid == env.stacking[i] IN
         IF wid = own
         THEN find_target_walk(env, own, i - 1, TRUE, sx, sy, sw, sh)
         ELSE IF ~found_self
         THEN find_target_walk(env, own, i - 1, found_self, sx, sy, sw, sh)
         ELSE IF env.geom[wid] = NoGeom
         THEN find_target_walk(env, own, i - 1, found_self, sx, sy, sw, sh)
         ELSE IF OverlapTest(env.geom[wid], sx, sy, sw, sh)
         THEN [wid |-> wid, geom |-> env.geom[wid], found_self |-> found_self]
         ELSE find_target_walk(env, own, i - 1, found_self, sx, sy, sw, sh)

\* the second loop of _find_target: the largest-area overlapping window
RECURSIVE find_target_largest(_, _, _, _, _, _, _, _)
find_target_largest(env, own, i, best, sx, sy, sw, sh) ==
    IF i = 0 THEN best
    ELSE LET wid == env.stacking[i]
             geom == env.geom[wid] IN
         IF wid = own \/ geom = NoGeom
         THEN find_target_largest(env, own, i - 1, best, sx, sy, sw, sh)
         ELSE IF OverlapTest(geom, sx, sy, sw, sh) /\ geom[3] * geom[4] > best.area
         THEN find_target_largest(env, own, i - 1,
                  [wid |-> wid, area |-> geom[3] * geom[4], geom |-> geom],
                  sx, sy, sw, sh)
         ELSE find_target_largest(env, own, i - 1, best, sx, sy, sw, sh)

\* WindowCapture._find_target: (wid, geom), or (0, None)
WindowCapture_find_target(env, own, sx, sy, sw, sh) ==
    IF env.stacking = <<>> THEN [wid |-> 0, geom |-> NoGeom]
    ELSE LET first == find_target_walk(env, own, Len(env.stacking), FALSE, sx, sy, sw, sh) IN
         IF first.wid # 0 THEN [wid |-> first.wid, geom |-> first.geom]
         ELSE IF ~first.found_self
         THEN LET best == find_target_largest(env, own, Len(env.stacking),
                              [wid |-> 0, area |-> 0, geom |-> NoGeom], sx, sy, sw, sh) IN
              IF best.wid # 0 THEN [wid |-> best.wid, geom |-> best.geom]
              ELSE [wid |-> 0, geom |-> NoGeom]
         ELSE [wid |-> 0, geom |-> NoGeom]

\* X11DirectCapture._find_target_window: the target wid, or 0 for None
X11DirectCapture_find_target_window_any(env, own, sx, sy, sw, sh) ==
    IF env.stacking = <<>> THEN 0
    ELSE find_target_walk_any(env, own, Len(env.stacking), FALSE, sx, sy, sw, sh).wid

X11DirectCapture_find_target_window(env, own, sx, sy, sw, sh) ==
    IF env.stacking = <<>> THEN 0
    ELSE find_target_walk(env, own, Len(env.stacking), FALSE, sx, sy, sw, sh).wid

-----------------------------------------------------------------------------
(* Program constants *)

\* WindowCapture._DETECT_INTERVAL
DETECT_INTERVAL == 300

-----------------------------------------------------------------------------
(* What an uncaught exception leaves as the call's result *)

Raised == [kind |-> "raise"]

\* the two-element regions handed to grab: <<x, y, width, height>>
Degenerate(region) == region[3] <= 0 \/ region[4] <= 0

-----------------------------------------------------------------------------
(* WindowCapture (window_capture.py) *)

\* WindowCapture.__init__
WindowCapture_init(own_window_id) ==
    [own_wid |-> own_window_id, target_wid |-> 0, target_geom |-> <<0, 0, 0, 0>>,
     refresh_counter |-> 0,
     detect_thread |-> "None",      \* None | alive | dead
     workers |-> 0,                 \* the detection threads started and not ended
     detect_args |-> <<0, 0, 0, 0>>,
     detect_pc |-> "none",          \* none | find | publish_geom
     detect_found |-> [wid |-> 0, geom |-> NoGeom]]

\* _start_detect without the is_alive() test
WindowCapture_start_detect_always(st, sx, sy, sw, sh) ==
    [st EXCEPT !.detect_thread = "alive", !.detect_args = <<sx, sy, sw, sh>>,
               !.detect_pc = "find", !.workers = @ + 1]

\* WindowCapture._start_detect: a new thread unless one is alive
WindowCapture_start_detect(st, sx, sy, sw, sh) ==
    IF st.detect_thread = "alive" THEN st
    ELSE [st EXCEPT !.detect_thread = "alive", !.detect_args = <<sx, sy, sw, sh>>,
                    !.detect_pc = "find", !.workers = @ + 1]

\* the clipping of the requested region to the cached target geometry
\* (window_capture.py lines 52-63): <<local_x, local_y, width, height>>
WindowCapture_clip(geom, screen_x, screen_y, width, height) ==
    LET lx0 == screen_x - geom[1]
        ly0 == screen_y - geom[2]
        w1  == IF lx0 < 0 THEN width + lx0 ELSE width
        lx  == IF lx0 < 0 THEN 0 ELSE lx0
        h1  == IF ly0 < 0 THEN height + ly0 ELSE height
        ly  == IF ly0 < 0 THEN 0 ELSE ly0
    IN <<lx, ly, Min2(w1, geom[3] - lx), Min2(h1, geom[4] - ly)>>

\* WindowCapture.grab keeping the cached target when its pixmap is null
WindowCapture_grab_keeps_target(st, screen_x, screen_y, width, height, pixmap_null) ==
    LET c1   == st.refresh_counter + 1
        kick == st.target_wid = 0 \/ c1 >= DETECT_INTERVAL
        st1  == IF kick
                THEN WindowCapture_start_detect([st EXCEPT !.refresh_counter = 0],
                                                screen_x, screen_y, width, height)
                ELSE [st EXCEPT !.refresh_counter = c1]
        started == IF kick /\ st1.workers > st.workers THEN {"Thread.start"} ELSE {}
        clip == WindowCapture_clip(st1.target_geom, screen_x, screen_y, width, height)
    IN IF st1.target_wid = 0
       THEN [st |-> st1, ret |-> NoFrame, oscalls |-> started]
       ELSE IF clip[3] <= 0 \/ clip[4] <= 0
       THEN [st |-> st1, ret |-> NoFrame, oscalls |-> started]
       ELSE IF pixmap_null
       THEN [st |-> st1, ret |-> NoFrame,
             oscalls |-> started \cup {"grabWindow"}]
       ELSE [st |-> st1, ret |-> Frame("direct", clip[3], clip[4], FALSE),
             oscalls |-> started \cup {"grabWindow"}]

\* WindowCapture.grab refreshing one grab late (counter > interval)
WindowCapture_grab_late(st, screen_x, screen_y, width, height, pixmap_null) ==
    LET c1   == st.refresh_counter + 1
        kick == st.target_wid = 0 \/ c1 > DETECT_INTERVAL
        st1  == IF kick
                THEN WindowCapture_start_detect([st EXCEPT !.refresh_counter = 0],
                                                screen_x, screen_y, width, height)
                ELSE [st EXCEPT !.refresh_counter = c1]
        started == IF kick /\ st1.workers > st.workers THEN {"Thread.start"} ELSE {}
        clip == WindowCapture_clip(st1.target_geom, screen_x, screen_y, width, height)
    IN IF st1.target_wid = 0
       THEN [st |-> st1, ret |-> NoFrame, oscalls |-> started]
       ELSE IF clip[3] <= 0 \/ clip[4] <= 0
       THEN [st |-> st1, ret |-> NoFrame, oscalls |-> started]
       ELSE IF pixmap_null
       THEN [st |-> [st1 EXCEPT !.target_wid = 0], ret |-> NoFrame,
             oscalls |-> started \cup {"grabWindow"}]
       ELSE [st |-> st1, ret |-> Frame("direct", clip[3], clip[4], FALSE),
             oscalls |-> started \cup {"grabWindow"}]

\* WindowCapture.grab: the new object state, the frame or None, the OS calls issued.
\* pixmap_null is what the window system answers to grabWindow.
WindowCapture_grab(st, screen_x, screen_y, width, height, pixmap_null) ==
    LET c1   == st.refresh_counter + 1
        kick == st.target_wid = 0 \/ c1 >= DETECT_INTERVAL
        st1  == IF kick
                THEN WindowCapture_start_detect([st EXCEPT !.refresh_counter = 0],
                                                screen_x, screen_y, width, height)
                ELSE [st EXCEPT !.refresh_counter = c1]
        started == IF kick /\ st1.workers > st.workers THEN {"Thread.start"} ELSE {}
        clip == WindowCapture_clip(st1.target_geom, screen_x, screen_y, width, height)
    IN IF st1.target_wid = 0
       THEN [st |-> st1, ret |-> NoFrame, oscalls |-> started]
       ELSE IF clip[3] <= 0 \/ clip[4] <= 0
       THEN [st |-> st1, ret |-> NoFrame, oscalls |-> started]
       ELSE IF pixmap_null
       THEN [st |-> [st1 EXCEPT !.target_wid = 0], ret |-> NoFrame,
             oscalls |-> started \cup {"grabWindow"}]
       ELSE [st |-> st1, ret |-> Frame("direct", clip[3], clip[4], FALSE),
             oscalls |-> started \cup {"grabWindow"}]

\* WindowCapture._detect_worker, first half: _find_target on the thread
WindowCapture_detect_worker_find(st, env) ==
    LET a == st.detect_args
        found == WindowCapture_find_target(env, st.own_wid, a[1], a[2], a[3], a[4])
    IN IF found.wid # 0
       THEN [st EXCEPT !.detect_found = found, !.target_wid = found.wid,
                       !.detect_pc = "publish_geom", !.detect_args = <<0, 0, 0, 0>>]
       ELSE [st EXCEPT !.detect_thread = "dead", !.detect_pc = "none",
                       !.detect_args = <<0, 0, 0, 0>>, !.workers = @ - 1]

\* WindowCapture._detect_worker, second half: the geometry assignment
WindowCapture_detect_worker_publish(st) ==
    [st EXCEPT !.target_geom = st.detect_found.geom, !.detect_thread = "dead",
               !.detect_pc = "none", !.detect_found = [wid |-> 0, geom |-> NoGeom],
               !.workers = @ - 1]

-----------------------------------------------------------------------------
(* MacOSCapture (macos_capture.py) *)

\* MacOSCapture.__init__ (after _load_frameworks succeeded)
MacOSCapture_init(own_window_id, pid) == [own_wid |-> own_window_id, our_pid |-> pid]

\* MacOSCapture._filter_window_ids without the owner test
RECURSIVE MacOSCapture_filter_window_ids_all(_, _)
MacOSCapture_filter_window_ids_all(st, window_list) ==
    IF window_list = <<>> THEN <<>>
    ELSE LET e == Head(window_list)
             rest == MacOSCapture_filter_window_ids_all(st, Tail(window_list)) IN
         IF ~e.info \/ ~e.pid_ok \/ ~e.wid_ok THEN rest
         ELSE IF e.wid > 0 THEN <<e.wid>> \o rest ELSE rest

\* MacOSCapture._filter_window_ids: the ids of the entries whose owner pid is
\* readable and not ours and whose window number is readable and positive,
\* in enumeration order.  An entry is [info, pid_ok, pid, wid_ok, wid]: whether
\* CFArrayGetValueAtIndex / the two CFDictionaryGetValue + CFNumberGetValue
\* calls answered, and the values they gave.
RECURSIVE MacOSCapture_filter_window_ids(_, _)
MacOSCapture_filter_window_ids(st, window_list) ==
    IF window_list = <<>> THEN <<>>
    ELSE LET e == Head(window_list)
             rest == MacOSCapture_filter_window_ids(st, Tail(window_list)) IN
         IF ~e.info THEN rest
         ELSE IF ~e.pid_ok THEN rest
         ELSE IF e.pid = st.our_pid THEN rest
         ELSE IF ~e.wid_ok THEN rest
         ELSE IF e.wid > 0 THEN <<e.wid>> \o rest ELSE rest

\* MacOSCapture.grab.  ans is what CoreGraphics answers: ans.list_null (the
\* enumeration failed), ans.window_list, ans.image ("null" | "undecodable" | "ok")
\* and the image's own dimensions ans.w, ans.h.  passed is the id list handed
\* to CGWindowListCreateImageFromArray (<<>> when the call is not reached).
MacOSCapture_grab(st, x, y, width, height, ans) ==
    LET window_ids == MacOSCapture_filter_window_ids(st, ans.window_list) IN
    IF ans.list_null
    THEN [st |-> st, ret |-> NoFrame, passed |-> <<>>, composited |-> FALSE,
          oscalls |-> {"CGWindowListCopyWindowInfo"}]
    ELSE IF window_ids = <<>>
    THEN [st |-> st, ret |-> NoFrame, passed |-> <<>>, composited |-> FALSE,
          oscalls |-> {"CGWindowListCopyWindowInfo"}]
    ELSE IF ans.image # "ok" \/ ans.w <= 0 \/ ans.h <= 0
    THEN [st |-> st, ret |-> NoFrame, passed |-> window_ids, composited |-> TRUE,
          oscalls |-> {"CGWindowListCopyWindowInfo", "CGWindowListCreateImageFromArray"}]
    ELSE [st |-> st, ret |-> Frame("direct", ans.w, ans.h, FALSE),
          passed |-> window_ids, composited |-> TRUE,
          oscalls |-> {"CGWindowListCopyWindowInfo", "CGWindowListCreateImageFromArray"}]

\* MacOSCapture.set_companion_windows: pass
MacOSCapture_set_companion_windows(st, widgets) == st

\* MacOSCapture.close: pass
MacOSCapture_close(st) == st

-----------------------------------------------------------------------------
(* X11DirectCapture (x11_capture.py) *)

\* X11DirectCapture.__init__ (after XOpenDisplay succeeded)
X11DirectCapture_init(own_window_id) == [own_wid |-> own_window_id, display |-> "open"]

\* the clipping in _read_from_window (lines 305-308): <<lx, ly, gw, gh>>
X11DirectCapture_clip(geom, sx, sy, sw, sh) ==
    LET lx == Max2(sx - geom[1], 0)
        ly == Max2(sy - geom[2], 0)
    IN <<lx, ly, Min2(sw, geom[3] - lx), Min2(sh, geom[4] - ly)>>

\* a fully opaque black pixel, and the pixel table of no frame
Black == <<0, 0, 0, 255>>

NoPx == <<>>

\* XGetImage(wid, lx, ly, gw, gh): column c, row r of the image is the
\* window's pixel at window-local (lx + c, ly + r); a pixel of the window is
\* named by its screen position
X11DirectCapture_image(geom, lx, ly, gw, gh) ==
    [p \in (0 .. gw - 1) \X (0 .. gh - 1) |-> <<geom[1] + lx + p[1], geom[2] + ly + p[2]>>]

\* the padding of lines 345-351: full[:gh, :gw] = frame on opaque black
X11DirectCapture_pad(img, gw, gh, sw, sh) ==
    [p \in (0 .. sw - 1) \X (0 .. sh - 1) |->
        IF p[1] < gw /\ p[2] < gh THEN img[p] ELSE Black]

\* X11DirectCapture._read_from_window: the frame (padded to the requested
\* size when the grabbed part is smaller) or None, and the frame's pixels by
\* <<column, row>>.  image_null is XGetImage's answer, bpp the bits_per_pixel
\* of the image it returned.
X11DirectCapture_read_from_window(env, wid, sx, sy, sw, sh, image_null, bpp) ==
    LET geom == env.geom[wid]
        clip == X11DirectCapture_clip(geom, sx, sy, sw, sh)
        img  == X11DirectCapture_image(geom, clip[1], clip[2], clip[3], clip[4]) IN
    IF geom = NoGeom
    THEN [ret |-> NoFrame, oscalls |-> {"XGetWindowAttributes"}, px |-> NoPx]
    ELSE IF clip[3] <= 0 \/ clip[4] <= 0
    THEN [ret |-> NoFrame, oscalls |-> {"XGetWindowAttributes"}, px |-> NoPx]
    ELSE IF image_null
    THEN [ret |-> NoFrame, oscalls |-> {"XGetWindowAttributes", "XGetImage"}, px |-> NoPx]
    ELSE IF bpp \notin {24, 32}
    THEN [ret |-> NoFrame, oscalls |-> {"XGetWindowAttributes", "XGetImage"}, px |-> NoPx]
    ELSE IF clip[3] < sw \/ clip[4] < sh
    THEN [ret |-> Frame("direct", sw, sh, FALSE),
          oscalls |-> {"XGetWindowAttributes", "XGetImage"},
          px |-> X11DirectCapture_pad(img, clip[3], clip[4], sw, sh)]
    ELSE [ret |-> Frame("direct", clip[3], clip[4], FALSE),
          oscalls |-> {"XGetWindowAttributes", "XGetImage"}, px |-> img]

\* X11DirectCapture.grab
X11DirectCapture_grab(st, env, screen_x, screen_y, width, height, image_null, bpp) ==
    LET target == X11DirectCapture_find_target_window(env, st.own_wid,
                      screen_x, screen_y, width, height)
        read == X11DirectCapture_read_from_window(env, target,
                      screen_x, screen_y, width, height, image_null, bpp) IN
    IF target = 0
    THEN [st |-> st, ret |-> NoFrame, oscalls |-> {"XGetWindowProperty"}]
    ELSE [st |-> st, ret |-> read.ret,
          oscalls |-> {"XGetWindowProperty"} \cup read.oscalls]

\* X11DirectCapture.close
X11DirectCapture_close(st) == [st EXCEPT !.display = "None"]

-----------------------------------------------------------------------------
(* The generic desktop grab (mss): ScreenCapture._mss_grab, Win32Capture.grab *)

\* what mss.grab and the numpy conversion after it can do: ans.kind is
\*   "grab_raises"  mss.grab raised (caught: None)
\*   "empty"        the shot has width <= 0 or height <= 0 (None)
\*   "ok"           a shot of ans.w x ans.h
\*   "numpy_raises" frombuffer / reshape / copy raised after the try block
\* shown: whether a window of the application is in the composited desktop
mss_shot(ans, shown) ==
    IF ans.kind = "grab_raises" THEN NoFrame
    ELSE IF ans.kind = "empty" THEN NoFrame
    ELSE IF ans.kind = "numpy_raises" THEN Raised
    ELSE Frame("mss", ans.w, ans.h, shown)

-----------------------------------------------------------------------------
(* Win32Capture (win32_capture.py) *)

\* _set_exclude_from_capture: SetWindowDisplayAffinity(hwnd, affinity).  The
\* window system keeps the set of flagged windows; it accepts the call for the
\* windows in os.accepts and rejects it (returns 0) for the others.
set_exclude_from_capture(os, hwnd, exclude) ==
    IF hwnd \in os.accepts
    THEN [os |-> [os EXCEPT !.flagged = IF exclude THEN @ \cup {hwnd} ELSE @ \ {hwnd}],
          ret |-> TRUE]
    ELSE [os |-> os, ret |-> FALSE]

\* Win32Capture.__init__
Win32Capture_init(os, own_hwnd) ==
    LET r == set_exclude_from_capture(os, own_hwnd, TRUE) IN
    [st |-> [own_hwnd |-> own_hwnd, companion_hwnds |-> <<>>, mss |-> "open",
             affinity_ok |-> r.ret],
     os |-> r.os]

\* Win32Capture.needs_hide
Win32Capture_needs_hide(st) == ~st.affinity_ok

\* Win32Capture.set_companion_windows that forgets the earlier registrations
RECURSIVE Win32Capture_set_companion_windows_replace(_, _, _)
Win32Capture_set_companion_windows_replace(st, os, hwnds) ==
    IF hwnds = <<>> THEN [st |-> st, os |-> os]
    ELSE LET r == set_exclude_from_capture(os, Head(hwnds), TRUE) IN
         Win32Capture_set_companion_windows_replace(
             [st EXCEPT !.companion_hwnds = <<Head(hwnds)>>], r.os, Tail(hwnds))

\* Win32Capture.set_companion_windows: flag each window, remember each handle
RECURSIVE Win32Capture_set_companion_windows(_, _, _)
Win32Capture_set_companion_windows(st, os, hwnds) ==
    IF hwnds = <<>> THEN [st |-> st, os |-> os]
    ELSE LET r == set_exclude_from_capture(os, Head(hwnds), TRUE) IN
         Win32Capture_set_companion_windows(
             [st EXCEPT !.companion_hwnds = Append(@, Head(hwnds))], r.os, Tail(hwnds))

\* Win32Capture.grab
Win32Capture_grab(st, x, y, width, height, ans, shown) ==
    IF width <= 0 \/ height <= 0
    THEN [st |-> st, ret |-> NoFrame, oscalls |-> {}]
    ELSE [st |-> st, ret |-> mss_shot(ans, shown), oscalls |-> {"mss.grab"}]

\* the loop of Win32Capture.close giving up at the first handle whose flag
\* could not be cleared
RECURSIVE Win32Capture_close_companions_stops(_, _, _)
Win32Capture_close_companions_stops(os, hwnds, calls) ==
    IF hwnds = <<>> THEN [os |-> os, calls |-> calls]
    ELSE IF ~set_exclude_from_capture(os, Head(hwnds), FALSE).ret
    THEN [os |-> os, calls |-> Append(calls, Head(hwnds))]
    ELSE Win32Capture_close_companions_stops(
             set_exclude_from_capture(os, Head(hwnds), FALSE).os, Tail(hwnds),
             Append(calls, Head(hwnds)))

\* the loop of Win32Capture.close over the companion handles: the window
\* system after it, and the handles a clear call was issued for, in order;
\* the calls' results are not looked at
RECURSIVE Win32Capture_close_companions(_, _, _)
Win32Capture_close_companions(os, hwnds, calls) ==
    IF hwnds = <<>> THEN [os |-> os, calls |-> calls]
    ELSE Win32Capture_close_companions(
             set_exclude_from_capture(os, Head(hwnds), FALSE).os, Tail(hwnds),
             Append(calls, Head(hwnds)))

\* Win32Capture.close.  calls: the handles a clear call was issued for, in
\* order; cleared: the same as a set; the mss handle's close() is the
\* library's and may raise.
Win32Capture_close(st, os, mss_close_raises) ==
    LET own == set_exclude_from_capture(os, st.own_hwnd, FALSE)
        rest == Win32Capture_close_companions(own.os, st.companion_hwnds, <<st.own_hwnd>>) IN
    [st |-> [st EXCEPT !.mss = IF mss_close_raises THEN @ ELSE "closed"], os |-> rest.os,
     calls |-> rest.calls, cleared |-> {rest.calls[k] : k \in DOMAIN rest.calls},
     released |-> Len(rest.calls) = 1 + Len(st.companion_hwnds),
     raised |-> mss_close_raises]

-----------------------------------------------------------------------------
(* ScreenCapture (capture.py) *)

\* ScreenCapture.__init__ with the constructor call outside any try block
ScreenCapture_init_unguarded(platform, own_window_id, ctor_raises) ==
    LET preferred == IF own_window_id # 0 /\ platform = "darwin" THEN "MacOSCapture"
                     ELSE IF own_window_id # 0 /\ platform = "linux" THEN "WindowCapture"
                     ELSE "None" IN
    IF preferred # "None" /\ ctor_raises
    THEN [st |-> [qt_cap |-> "None", mss |-> "None"], printed |-> 0, raised |-> TRUE]
    ELSE [st |-> [qt_cap |-> preferred,
                  mss |-> IF preferred = "None" THEN "open" ELSE "None"],
          printed |-> 0, raised |-> FALSE]

\* ScreenCapture.__init__: the object, the number of "unavailable" lines
\* printed, and whether an exception left the constructor.  own_window_id 0
\* stands for None / 0 (both falsy); ctor_raises is whether the preferred
\* backend's import or constructor raises.
ScreenCapture_init(platform, own_window_id, ctor_raises) ==
    LET preferred == IF own_window_id # 0 /\ platform = "darwin" THEN "MacOSCapture"
                     ELSE IF own_window_id # 0 /\ platform = "linux" THEN "WindowCapture"
                     ELSE "None"
        qt_cap == IF preferred # "None" /\ ~ctor_raises THEN preferred ELSE "None" IN
    [st |-> [qt_cap |-> qt_cap, mss |-> IF qt_cap = "None" THEN "open" ELSE "None"],
     printed |-> IF preferred # "None" /\ ctor_raises THEN 1 ELSE 0,
     raised |-> FALSE]

\* ScreenCapture.needs_hide
ScreenCapture_needs_hide_by_mss(st) == st.mss # "None"

ScreenCapture_needs_hide(st) == st.qt_cap = "None"

\* ScreenCapture.is_direct
ScreenCapture_is_direct(st) == st.qt_cap # "None"

\* ScreenCapture._mss_grab: the mss handle is created on first use
ScreenCapture_mss_grab(st, x, y, width, height, ans, shown) ==
    [st |-> [st EXCEPT !.mss = IF @ = "None" THEN "open" ELSE @],
     ret |-> mss_shot(ans, shown), oscalls |-> {"mss.grab"}]

\* ScreenCapture.grab giving up the direct backend once its grab returned None
ScreenCapture_grab_reselects(st, direct, x, y, width, height, ans, shown) ==
    LET m == ScreenCapture_mss_grab(st, x, y, width, height, ans, shown) IN
    IF width <= 0 \/ height <= 0
    THEN [st |-> st, ret |-> NoFrame, oscalls |-> {}, via |-> {}]
    ELSE IF st.qt_cap # "None" /\ direct.ret # NoFrame
    THEN [st |-> st, ret |-> direct.ret, oscalls |-> direct.oscalls, via |-> {"direct"}]
    ELSE IF st.qt_cap # "None"
    THEN [st |-> [m.st EXCEPT !.qt_cap = "None"], ret |-> m.ret,
          oscalls |-> direct.oscalls \cup m.oscalls, via |-> {"direct", "mss"}]
    ELSE [st |-> m.st, ret |-> m.ret, oscalls |-> m.oscalls, via |-> {"mss"}]

\* ScreenCapture.grab.  direct is the result of self._qt_cap.grab(...) (used
\* only when a direct backend exists).  via: which grabs were made.
ScreenCapture_grab(st, direct, x, y, width, height, ans, shown) ==
    LET m == ScreenCapture_mss_grab(st, x, y, width, height, ans, shown) IN
    IF width <= 0 \/ height <= 0
    THEN [st |-> st, ret |-> NoFrame, oscalls |-> {}, via |-> {}]
    ELSE IF st.qt_cap # "None" /\ direct.ret # NoFrame
    THEN [st |-> st, ret |-> direct.ret, oscalls |-> direct.oscalls, via |-> {"direct"}]
    ELSE IF st.qt_cap # "None"
    THEN [st |-> m.st, ret |-> m.ret, oscalls |-> direct.oscalls \cup m.oscalls,
          via |-> {"direct", "mss"}]
    ELSE [st |-> m.st, ret |-> m.ret, oscalls |-> m.oscalls, via |-> {"mss"}]

\* ScreenCapture.close
\* ScreenCapture.close isolating a failing release
ScreenCapture_close_isolated(st, mss_close_raises) ==
    [st |-> [st EXCEPT !.mss = IF @ = "open" /\ ~mss_close_raises THEN "closed" ELSE @],
     released |-> (IF st.qt_cap # "None" THEN <<"direct">> ELSE <<>>)
                  \o (IF st.mss = "open" THEN <<"mss">> ELSE <<>>),
     raised |-> FALSE]

\* ScreenCapture.close.  The direct backends' close() is `pass`; the mss
\* handle's close() is the library's and may raise, and nothing catches it.
\* released: the release calls made, in order.
ScreenCapture_close(st, mss_close_raises) ==
    [st |-> [st EXCEPT !.mss = IF @ = "open" /\ ~mss_close_raises THEN "closed" ELSE @],
     released |-> (IF st.qt_cap # "None" THEN <<"direct">> ELSE <<>>)
                  \o (IF st.mss = "open" THEN <<"mss">> ELSE <<>>),
     raised |-> st.mss = "open" /\ mss_close_raises]

-----------------------------------------------------------------------------
(* Inputs: what callers pass and what the OS answers *)

\* regions passed to grab: one proper, two degenerate
GrabRegions == {<<1, 1, 2, 2>>, <<1, 1, 0, 2>>, <<1, 1, 2, -1>>}

\* the application's windows (also their native handles)
AppWindows == {"overlay", "toolbar", "grip"}

Companions == {"toolbar", "grip"}

\* argument lists of set_companion_windows
CompanionArgs == {<<>>, <<"toolbar">>, <<"grip">>, <<"toolbar", "grip">>}

\* answers of the generic desktop grab to a request of w x h
MssAnswers(w, h) ==
    {[kind |-> "grab_raises", w |-> 0, h |-> 0], [kind |-> "empty", w |-> 0, h |-> 0],
     [kind |-> "numpy_raises", w |-> w, h |-> h],
     [kind |-> "ok", w |-> w, h |-> h], [kind |-> "ok", w |-> w + 1, h |-> h]}

\* answers of CGWindowListCreateImageFromArray to a request of w x h
MacImageAnswers(w, h) ==
    {[image |-> "null", w |-> 0, h |-> 0], [image |-> "undecodable", w |-> 0, h |-> 0],
     [image |-> "ok", w |-> w, h |-> h]}

\* one entry of the on-screen window list, by what can be read from it; which
\* lookup of an unreadable entry fails goes by its position, so that each of
\* the three failures (no dictionary, no owner pid, no window number) is met
MacEntryKinds == {"own", "foreign", "unreadable"}

MacEntry(kind, i) ==
    [info |-> ~(kind = "unreadable" /\ i % 3 = 1),
     pid_ok |-> ~(kind = "unreadable" /\ i % 3 \in {1, 2}),
     pid |-> IF kind = "own" THEN "self" ELSE "other",
     wid_ok |-> kind # "unreadable", wid |-> i]

\* every on-screen window list of at most MaxEnum entries (entry i has id i)
MacWindowLists ==
    UNION {{[i \in 1 .. n |-> MacEntry(k[i], i)] : k \in [1 .. n -> MacEntryKinds]}
           : n \in 0 .. MaxEnum}

\* X servers the backends are driven against outside SpecWalk: window 1 below
\* the own window, covering or partly covering the region, or nothing managed
BackendXEnvs ==
    {[stacking |-> <<1, OwnWid>>, geom |-> [w \in Windows |-> IF w = 1 THEN <<0, 0, 4, 4>> ELSE <<1, 1, 2, 2>>]],
     [stacking |-> <<1, OwnWid>>, geom |-> [w \in Windows |-> IF w = 1 THEN <<2, 1, 3, 3>> ELSE <<1, 1, 2, 2>>]],
     [stacking |-> <<1, 2, OwnWid>>,
      geom |-> [w \in Windows |-> IF w = 1 THEN <<0, 0, 4, 4>>
                                  ELSE IF w = 2 THEN <<2, 1, 3, 3>> ELSE <<1, 1, 2, 2>>]],
     [stacking |-> <<>>, geom |-> [w \in Windows |-> NoGeom]]}

\* placeholders for the objects a scenario does not have
NoObject == [none |-> TRUE]

NoXEnv == [stacking |-> <<>>, geom |-> [w \in Windows |-> NoGeom]]

NoOsw == [accepts |-> {}, flagged |-> {}, window_list |-> <<>>]

WinInit == [w \in AppWindows |-> [opacity |-> 1, visible |-> TRUE]]

\* what a WindowCapture.grab call met: the cached target id when it was
\* entered and when it returned, what it returned, whether grabWindow
\* answered a null pixmap,
\* whether the detection thread was alive when it returned, and the window
\* the cached geometry it read had been published for
NoDet == [called |-> FALSE, ret |-> NoFrame, entry_target |-> 0, exit_target |-> 0,
          null_pixmap |-> FALSE, alive_after |-> FALSE, geom_of |-> 0,
          entry_alive |-> FALSE, exit_counter |-> 0, pub_geom |-> <<0, 0, 0, 0>>]

LastNone == [op |-> "none", region |-> <<0, 0, 0, 0>>, ret |-> NoFrame, oscalls |-> {},
             changed |-> FALSE, passed |-> <<>>, composited |-> FALSE, target |-> 0,
             via |-> {}, path |-> "none", guard |-> FALSE, sets |-> <<>>,
             scheduled |-> 0, grabs |-> 0, shown |-> FALSE, own_opacity |-> 1,
             handed |-> NoFrame, direct |-> NoFrame, steps |-> <<>>,
             drawn |-> [kind |-> "none"], uploaded |-> NoFrame, det |-> NoDet, px |-> <<>>,
             rect |-> <<>>]

CtorNone == [platform |-> "none", own_window_id |-> 0, ctor_raises |-> FALSE,
             printed |-> 0, raised |-> FALSE, qt_cap |-> "None", mss |-> "None"]

HistInit == [closed |-> FALSE, ctor |-> CtorNone, ever_passed |-> {}, cleared |-> {},
             registrations |-> 0,
             cycle |-> "none",          \* none | running | done | raised
             vis_at_start |-> {},       \* companions visible when the cycle began
             trace |-> [w \in AppWindows |-> <<>>],
             stale |-> 0,               \* the last target id that met a null pixmap
             closes |-> 0,              \* calls of the backend's close()
             steps |-> <<>>,            \* what the current cycle did so far
             delivered |-> NoFrame,     \* the frame most recently handed to the renderer
             geom_of |-> 0,             \* the window _target_geom was published for
             pub_geom |-> <<0, 0, 0, 0>>, \* the geometry last published
             since |-> 0]               \* grabs since the last one that was due a detection

\* whether a window of the application is in the composited desktop
Shown == \E w \in AppWindows :
             win[w].visible /\ win[w].opacity > 0 /\ w \notin osw.flagged

-----------------------------------------------------------------------------
(* ScreenCapture.grab together with the direct backend it delegates to *)

\* whether the X server still has the window
InStacking(env, wid) == \E i \in DOMAIN env.stacking : env.stacking[i] = wid

\* what grabWindow may answer for the cached target: a null pixmap when the
\* window is gone, a null pixmap or an image otherwise
PixmapAnswers == IF wc # NoObject /\ InStacking(xenv, wc.target_wid) THEN BOOLEAN ELSE {TRUE}

\* what one WindowCapture.grab call met, from the object before and after
Det(before, g) ==
    [called |-> TRUE, ret |-> g.ret, entry_target |-> before.target_wid,
     exit_target |-> g.st.target_wid,
     null_pixmap |-> "grabWindow" \in g.oscalls /\ g.ret = NoFrame,
     alive_after |-> g.st.detect_thread = "alive", geom_of |-> hist.geom_of,
     entry_alive |-> before.detect_thread = "alive",
     exit_counter |-> g.st.refresh_counter, pub_geom |-> hist.pub_geom]

\* self._qt_cap.grab(x, y, width, height)
DirectGrab(region, a) ==
    IF sc.qt_cap = "WindowCapture"
    THEN WindowCapture_grab(wc, region[1], region[2], region[3], region[4], a.pixmap_null)
    ELSE IF sc.qt_cap = "MacOSCapture"
    THEN MacOSCapture_grab(mac, region[1], region[2], region[3], region[4], a.mac)
    ELSE [st |-> NoObject, ret |-> NoFrame, oscalls |-> {}]

\* the OS answers one ScreenCapture.grab may meet
ScreenCaptureAnswers(region) ==
    {[pixmap_null |-> pn, mac |-> m, mss |-> ms] :
        pn \in (IF sc.qt_cap = "WindowCapture" THEN PixmapAnswers ELSE {FALSE}),
        m \in (IF sc.qt_cap = "MacOSCapture"
               THEN {[list_null |-> ln, window_list |-> osw.window_list,
                      image |-> i.image, w |-> i.w, h |-> i.h] :
                         ln \in BOOLEAN, i \in MacImageAnswers(region[3], region[4])}
               ELSE {[list_null |-> TRUE, window_list |-> <<>>, image |-> "null",
                      w |-> 0, h |-> 0]}),
        ms \in MssAnswers(region[3], region[4])}

\* ScreenCapture.grab and its effect on the direct backend object
ScreenCaptureGrab(region, a) ==
    LET d == DirectGrab(region, a)
        r == ScreenCapture_grab(sc, d, region[1], region[2], region[3], region[4],
                                a.mss, Shown) IN
    [sc |-> r.st,
     wc |-> IF sc.qt_cap = "WindowCapture" /\ "direct" \in r.via THEN d.st ELSE wc,
     mac |-> IF sc.qt_cap = "MacOSCapture" /\ "direct" \in r.via THEN d.st ELSE mac,
     ret |-> r.ret, oscalls |-> r.oscalls, via |-> r.via, direct |-> d.ret]

-----------------------------------------------------------------------------
(* SpecBackend: each backend class driven through its API *)

BackendClasses ==
    {"ScreenCapture", "WindowCapture", "X11DirectCapture", "MacOSCapture", "Win32Capture"}

Platforms == {"darwin", "linux", "win32"}

InitScreenCapture ==
    \E platform \in Platforms, wid \in {0, OwnWid}, ctor_raises \in BOOLEAN :
        LET c == ScreenCapture_init(platform, wid, ctor_raises) IN
        /\ sc = c.st
        /\ wc = IF c.st.qt_cap = "WindowCapture" THEN WindowCapture_init(wid) ELSE NoObject
        /\ mac = IF c.st.qt_cap = "MacOSCapture" THEN MacOSCapture_init(wid, "self")
                 ELSE NoObject
        /\ xenv \in (IF c.st.qt_cap = "WindowCapture" THEN BackendXEnvs ELSE {NoXEnv})
        /\ osw \in (IF c.st.qt_cap = "MacOSCapture"
                    THEN {[NoOsw EXCEPT !.window_list = l] :
                             l \in {<<>>, <<MacEntry("own", 1), MacEntry("foreign", 2)>>}}
                    ELSE {NoOsw})
        /\ hist = [HistInit EXCEPT !.ctor =
                      [platform |-> platform, own_window_id |-> wid,
                       ctor_raises |-> ctor_raises, printed |-> c.printed,
                       raised |-> c.raised, qt_cap |-> c.st.qt_cap, mss |-> c.st.mss]]
        /\ x11 = NoObject /\ w32 = NoObject

InitBackend ==
    /\ obj \in BackendClasses
    /\ app = NoObject
    /\ gl = NoObject /\ win = WinInit /\ last = LastNone
    /\ \/ obj = "ScreenCapture" /\ InitScreenCapture
       \/ /\ obj = "WindowCapture"
          /\ wc = WindowCapture_init(OwnWid) /\ xenv \in BackendXEnvs
          /\ sc = NoObject /\ x11 = NoObject /\ mac = NoObject /\ w32 = NoObject
          /\ osw = NoOsw /\ hist = HistInit
       \/ /\ obj = "X11DirectCapture"
          /\ x11 = X11DirectCapture_init(OwnWid) /\ xenv \in BackendXEnvs
          /\ sc = NoObject /\ wc = NoObject /\ mac = NoObject /\ w32 = NoObject
          /\ osw = NoOsw /\ hist = HistInit
       \/ /\ obj = "MacOSCapture"
          /\ mac = MacOSCapture_init(OwnWid, "self")
          /\ osw \in {[NoOsw EXCEPT !.window_list = l] : l \in MacWindowLists}
          /\ sc = NoObject /\ wc = NoObject /\ x11 = NoObject /\ w32 = NoObject
          /\ xenv = NoXEnv /\ hist = HistInit
       \/ /\ obj = "Win32Capture"
          /\ \E accepts \in SUBSET AppWindows :
                LET r == Win32Capture_init([NoOsw EXCEPT !.accepts = accepts], "overlay") IN
                w32 = r.st /\ osw = r.os
          /\ sc = NoObject /\ wc = NoObject /\ x11 = NoObject /\ mac = NoObject
          /\ xenv = NoXEnv /\ hist = HistInit

Called(op, region, ret, oscalls, changed) ==
    [LastNone EXCEPT !.op = op, !.region = region, !.ret = ret, !.oscalls = oscalls,
                     !.changed = changed]

\* ScreenCapture.grab(x, y, width, height)
SC_GrabRegion(region) ==
    /\ obj = "ScreenCapture" /\ ~hist.closed
    /\ sc.qt_cap = "WindowCapture" => (wc.refresh_counter < MaxGrabs \/ wc.target_wid = 0)
    /\ \E a \in ScreenCaptureAnswers(region) :
          LET g == ScreenCaptureGrab(region, a) IN
          /\ sc' = g.sc /\ wc' = g.wc /\ mac' = g.mac
          /\ last' = [Called("grab", region, g.ret, g.oscalls,
                             g.sc # sc \/ g.wc # wc \/ g.mac # mac)
                         EXCEPT !.det = IF sc.qt_cap = "WindowCapture" /\ "direct" \in g.via
                                        THEN Det(wc, [st |-> g.wc, ret |-> g.direct,
                                                      oscalls |-> g.oscalls])
                                        ELSE NoDet]
          /\ hist' = IF sc.qt_cap = "WindowCapture" /\ "grabWindow" \in g.oscalls
                        /\ g.direct = NoFrame
                     THEN [hist EXCEPT !.stale = wc.target_wid] ELSE hist
    /\ UNCHANGED <<app, obj, xenv, osw, x11, w32, gl, win>>

SC_Grab == \E region \in GrabRegions : SC_GrabRegion(region)

\* ScreenCapture.set_companion_windows: forwarded to MacOSCapture (a no-op);
\* WindowCapture has no such method
SC_SetCompanionWindows ==
    /\ obj = "ScreenCapture" /\ ~hist.closed
    /\ hist.registrations < MaxCompanionCalls
    /\ mac' = IF sc.qt_cap = "MacOSCapture"
              THEN MacOSCapture_set_companion_windows(mac, <<"toolbar", "grip">>)
              ELSE mac
    /\ hist' = [hist EXCEPT !.registrations = @ + 1]
    /\ last' = Called("set_companion_windows", <<0, 0, 0, 0>>, NoFrame, {}, FALSE)
    /\ UNCHANGED <<app, obj, xenv, osw, sc, wc, x11, w32, gl, win>>

\* ScreenCapture.close
SC_Close ==
    /\ obj = "ScreenCapture" /\ ~hist.closed
    /\ \E mss_close_raises \in BOOLEAN :
          LET r == ScreenCapture_close(sc, mss_close_raises) IN
          /\ sc' = r.st
          /\ last' = [Called("close", <<0, 0, 0, 0>>,
                             IF r.raised THEN Raised ELSE NoFrame, {}, FALSE)
                         EXCEPT !.steps = r.released]
    /\ hist' = [hist EXCEPT !.closed = TRUE]
    /\ UNCHANGED <<app, obj, xenv, osw, wc, x11, mac, w32, gl, win>>

\* WindowCapture.grab
WC_GrabRegion(region) ==
    /\ obj = "WindowCapture" /\ ~hist.closed
    /\ \/ wc.refresh_counter < MaxGrabs \/ wc.target_wid = 0
       \/ wc.refresh_counter >= DETECT_INTERVAL - MaxGrabs
    /\ \E pixmap_null \in PixmapAnswers :
          LET g == WindowCapture_grab(wc, region[1], region[2], region[3], region[4],
                                      pixmap_null) IN
          /\ wc' = g.st
          /\ last' = [Called("grab", region, g.ret, g.oscalls, g.st # wc)
                         EXCEPT !.det = Det(wc, g)]
          /\ hist' = [hist EXCEPT
                         !.stale = IF Det(wc, g).null_pixmap THEN wc.target_wid ELSE @,
                         !.since = IF wc.target_wid = 0 \/ @ + 1 = DETECT_INTERVAL
                                   THEN 0 ELSE @ + 1]
    /\ UNCHANGED <<app, obj, xenv, osw, sc, x11, mac, w32, gl, win>>

WC_Grab == \E region \in GrabRegions : WC_GrabRegion(region)

\* WindowCapture.close: pass
WC_Close ==
    /\ obj = "WindowCapture" /\ ~hist.closed
    /\ hist' = [hist EXCEPT !.closed = TRUE]
    /\ last' = Called("close", <<0, 0, 0, 0>>, NoFrame, {}, FALSE)
    /\ UNCHANGED <<app, obj, xenv, osw, sc, wc, x11, mac, w32, gl, win>>

\* the detection thread runs _find_target and, if it found a window, enters
\* the locked block and assigns _target_wid
WC_DetectFind ==
    /\ wc # NoObject /\ wc.detect_pc = "find"
    /\ wc' = WindowCapture_detect_worker_find(wc, xenv)
    /\ UNCHANGED <<app, obj, xenv, osw, sc, x11, mac, w32, gl, win, last, hist>>

\* the detection thread assigns _target_geom and ends
WC_DetectPublish ==
    /\ wc # NoObject /\ wc.detect_pc = "publish_geom"
    /\ wc' = WindowCapture_detect_worker_publish(wc)
    /\ hist' = [hist EXCEPT !.geom_of = wc.detect_found.wid,
                            !.pub_geom = wc.detect_found.geom]
    /\ UNCHANGED <<app, obj, xenv, osw, sc, x11, mac, w32, gl, win, last>>

\* X11DirectCapture.grab
X11_Grab ==
    /\ obj = "X11DirectCapture" /\ ~hist.closed
    /\ \E region \in GrabRegions, image_null \in BOOLEAN, bpp \in {24, 32, 16} :
          LET g == X11DirectCapture_grab(x11, xenv, region[1], region[2], region[3],
                                         region[4], image_null, bpp) IN
          /\ x11' = g.st
          /\ last' = Called("grab", region, g.ret, g.oscalls, g.st # x11)
    /\ UNCHANGED <<app, obj, xenv, osw, sc, wc, mac, w32, gl, win, hist>>

\* X11DirectCapture.close
X11_Close ==
    /\ obj = "X11DirectCapture" /\ ~hist.closed
    /\ x11' = X11DirectCapture_close(x11)
    /\ hist' = [hist EXCEPT !.closed = TRUE]
    /\ last' = Called("close", <<0, 0, 0, 0>>, NoFrame, {}, FALSE)
    /\ UNCHANGED <<app, obj, xenv, osw, sc, wc, mac, w32, gl, win>>

\* MacOSCapture.grab
Mac_Grab ==
    /\ obj = "MacOSCapture" /\ ~hist.closed
    /\ \E region \in GrabRegions, list_null \in BOOLEAN :
       \E i \in MacImageAnswers(region[3], region[4]) :
          LET g == MacOSCapture_grab(mac, region[1], region[2], region[3], region[4],
                       [list_null |-> list_null, window_list |-> osw.window_list,
                        image |-> i.image, w |-> i.w, h |-> i.h]) IN
          /\ mac' = g.st
          /\ last' = [Called("grab", region, g.ret, g.oscalls, g.st # mac)
                         EXCEPT !.passed = g.passed, !.composited = g.composited]
    /\ UNCHANGED <<app, obj, xenv, osw, sc, wc, x11, w32, gl, win, hist>>

\* MacOSCapture.set_companion_windows(toolbar, grip)
Mac_SetCompanionWindows ==
    /\ obj = "MacOSCapture" /\ ~hist.closed
    /\ hist.registrations < MaxCompanionCalls
    /\ mac' = MacOSCapture_set_companion_windows(mac, <<"toolbar", "grip">>)
    /\ hist' = [hist EXCEPT !.registrations = @ + 1]
    /\ UNCHANGED <<app, obj, xenv, osw, sc, wc, x11, w32, gl, win, last>>

\* MacOSCapture.close
Mac_Close ==
    /\ obj = "MacOSCapture" /\ ~hist.closed
    /\ mac' = MacOSCapture_close(mac)
    /\ hist' = [hist EXCEPT !.closed = TRUE]
    /\ last' = Called("close", <<0, 0, 0, 0>>, NoFrame, {}, FALSE)
    /\ UNCHANGED <<app, obj, xenv, osw, sc, wc, x11, w32, gl, win>>

\* Win32Capture.grab
W32_Grab ==
    /\ obj = "Win32Capture" /\ ~hist.closed
    /\ \E region \in GrabRegions : \E ans \in MssAnswers(region[3], region[4]) :
          LET g == Win32Capture_grab(w32, region[1], region[2], region[3], region[4],
                                     ans, Shown) IN
          /\ w32' = g.st
          /\ last' = Called("grab", region, g.ret, g.oscalls, g.st # w32)
    /\ UNCHANGED <<app, obj, xenv, osw, sc, wc, x11, mac, gl, win, hist>>

\* Win32Capture.set_companion_windows(*qt_widgets)
W32_SetCompanionWindows ==
    /\ obj = "Win32Capture" /\ ~hist.closed
    /\ hist.registrations < MaxCompanionCalls
    /\ \E args \in CompanionArgs :
          LET r == Win32Capture_set_companion_windows(w32, osw, args) IN
          /\ w32' = r.st /\ osw' = r.os
          /\ hist' = [hist EXCEPT !.registrations = @ + 1,
                                  !.ever_passed = @ \cup {args[i] : i \in 1 .. Len(args)}]
    /\ last' = Called("set_companion_windows", <<0, 0, 0, 0>>, NoFrame, {}, FALSE)
    /\ UNCHANGED <<app, obj, xenv, sc, wc, x11, mac, gl, win>>

\* Win32Capture.close
W32_Close ==
    /\ obj = "Win32Capture" /\ ~hist.closed
    /\ \E mss_close_raises \in BOOLEAN :
          LET r == Win32Capture_close(w32, osw, mss_close_raises) IN
          /\ w32' = r.st /\ osw' = r.os
          /\ hist' = [hist EXCEPT !.closed = TRUE, !.cleared = r.cleared]
          /\ last' = [Called("close", <<0, 0, 0, 0>>, IF r.raised THEN Raised ELSE NoFrame,
                             IF r.released THEN {"mss.close"} ELSE {}, FALSE)
                         EXCEPT !.steps = r.calls, !.guard = mss_close_raises]
    /\ UNCHANGED <<app, obj, xenv, sc, wc, x11, mac, gl, win>>

\* a window other than the own one is closed by its application
X_WindowVanishes ==
    /\ obj \in {"ScreenCapture", "WindowCapture", "X11DirectCapture"}
    /\ \E i \in DOMAIN xenv.stacking :
          /\ xenv.stacking[i] # OwnWid
          /\ xenv' = [stacking |-> SelectSeq(xenv.stacking, LAMBDA v : v # xenv.stacking[i]),
                      geom |-> [xenv.geom EXCEPT ![xenv.stacking[i]] = NoGeom]]
    /\ UNCHANGED <<app, obj, osw, sc, wc, x11, mac, w32, gl, win, last, hist>>

NextBackend ==
    \/ SC_Grab \/ SC_SetCompanionWindows \/ SC_Close
    \/ X_WindowVanishes
    \/ WC_Grab \/ WC_Close \/ WC_DetectFind \/ WC_DetectPublish
    \/ X11_Grab \/ X11_Close
    \/ Mac_Grab \/ Mac_SetCompanionWindows \/ Mac_Close
    \/ W32_Grab \/ W32_SetCompanionWindows \/ W32_Close

SpecBackend == InitBackend /\ [][NextBackend]_vars

\* A WindowCapture as the program drives it: every call of grab comes from
\* the timer with the region of the widget, which stays where it is; the
\* timer keeps calling, and a started thread runs to its end.
InitStale == InitBackend /\ obj = "WindowCapture"

NextStale ==
    \/ WC_GrabRegion(<<1, 1, 2, 2>>) \/ WC_Close
    \/ X_WindowVanishes
    \/ WC_DetectFind \/ WC_DetectPublish

SpecStale ==
    /\ InitStale /\ [][NextStale]_vars
    /\ WF_vars(WC_GrabRegion(<<1, 1, 2, 2>>))
    /\ WF_vars(WC_DetectFind) /\ WF_vars(WC_DetectPublish)

\* A WindowCapture late in a refresh interval: a fresh object, or one that has
\* cached a window found below the own one and has grabbed from it since
InitCadence ==
    /\ obj = "WindowCapture" /\ app = NoObject
    /\ gl = NoObject /\ win = WinInit /\ last = LastNone
    /\ sc = NoObject /\ x11 = NoObject /\ mac = NoObject /\ w32 = NoObject
    /\ osw = NoOsw /\ xenv \in BackendXEnvs
    /\ \/ wc = WindowCapture_init(OwnWid) /\ hist = HistInit
       \/ \E c \in (DETECT_INTERVAL - MaxGrabs) .. (DETECT_INTERVAL - 1) :
             LET f == WindowCapture_find_target(xenv, OwnWid, 1, 1, 2, 2) IN
             /\ f.wid # 0
             /\ wc = [WindowCapture_init(OwnWid) EXCEPT
                         !.target_wid = f.wid, !.target_geom = f.geom,
                         !.refresh_counter = c, !.detect_thread = "dead"]
             /\ hist = [HistInit EXCEPT !.geom_of = f.wid, !.pub_geom = f.geom,
                                        !.since = c]

NextCadence ==
    \/ WC_Grab
    \/ X_WindowVanishes
    \/ WC_DetectFind \/ WC_DetectPublish

SpecCadence == InitCadence /\ [][NextCadence]_vars

-----------------------------------------------------------------------------
(* GLWidget (gl_widget.py): the capture/render coordinator *)

\* GLWidget after start() and the first show: the backend exists, the timer
\* runs, initializeGL built the shader program and resizeGL set the viewport.
\* flushing counts the _on_timer calls that are inside processEvents(),
\* pending_shots the QTimer.singleShot callbacks not yet fired; tex is the
\* content of the texture.
GLWidget_init(rect) ==
    [capturing |-> FALSE, cap_region |-> <<0, 0, 0, 0>>, pending_frame |-> NoFrame,
     timer |-> TRUE, rect |-> rect, flushing |-> 0, pending_shots |-> 0,
     fullscreen |-> FALSE, program |-> TRUE,
     tex_width |-> 0, tex_height |-> 0, tex |-> NoFrame,
     viewport_w |-> rect[3], viewport_h |-> rect[4]]

\* the hide step of GLWidget._on_timer (lines 254-264): the windows after it
\* and the windows setWindowOpacity was called on, in order
GLWidget_hide(w) ==
    [win |-> [x \in AppWindows |->
                 IF x = "overlay" \/ w[x].visible THEN [w[x] EXCEPT !.opacity = 0]
                 ELSE w[x]],
     sets |-> <<"overlay">> \o (IF w["toolbar"].visible THEN <<"toolbar">> ELSE <<>>)
                            \o (IF w["grip"].visible THEN <<"grip">> ELSE <<>>)]

\* the synchronous branch requesting a redraw only when it got a frame
GLWidget_sync_tick_redraw_on_frame(g, w, grabbed) ==
    IF grabbed.ret = Raised
    THEN [gl |-> g, win |-> w, path |-> "sync", sets |-> <<>>, grabs |-> 1,
          handed |-> NoFrame, steps |-> <<"grab">>]
    ELSE IF grabbed.ret # NoFrame
    THEN [gl |-> [g EXCEPT !.pending_frame = grabbed.ret],
          win |-> w, path |-> "sync", sets |-> <<>>, grabs |-> 1,
          handed |-> grabbed.ret, steps |-> <<"grab", "hand", "update">>]
    ELSE [gl |-> g, win |-> w, path |-> "sync", sets |-> <<>>, grabs |-> 1,
          handed |-> NoFrame, steps |-> <<"grab">>]

\* the synchronous branch of GLWidget._on_timer (lines 270-273)
GLWidget_sync_tick(g, w, grabbed) ==
    IF grabbed.ret = Raised
    THEN [gl |-> g, win |-> w, path |-> "sync", sets |-> <<>>, grabs |-> 1,
          handed |-> NoFrame, steps |-> <<"grab">>]
    ELSE IF grabbed.ret # NoFrame
    THEN [gl |-> [g EXCEPT !.pending_frame = grabbed.ret],
          win |-> w, path |-> "sync", sets |-> <<>>, grabs |-> 1,
          handed |-> grabbed.ret, steps |-> <<"grab", "hand", "update">>]
    ELSE [gl |-> g, win |-> w, path |-> "sync", sets |-> <<>>, grabs |-> 1,
          handed |-> NoFrame, steps |-> <<"grab", "update">>]

\* _on_timer without the re-entrancy guard
GLWidget_on_timer_unguarded(g, w, needs_hide, grabbed) ==
    IF g.rect[3] <= 0 \/ g.rect[4] <= 0
    THEN [gl |-> g, win |-> w, path |-> "degenerate", sets |-> <<>>, grabs |-> 0,
          handed |-> NoFrame, steps |-> <<>>]
    ELSE IF needs_hide
    THEN [gl |-> [g EXCEPT !.capturing = TRUE, !.cap_region = g.rect,
                           !.flushing = @ + 1],
          win |-> GLWidget_hide(w).win, path |-> "async",
          sets |-> GLWidget_hide(w).sets, grabs |-> 0,
          handed |-> NoFrame, steps |-> <<"hide">>]
    ELSE GLWidget_sync_tick(g, w, grabbed)

\* GLWidget._on_timer up to processEvents() (needs_hide) or to its end.
\* grabbed is the result of self._capture.grab(x, y, w, h), used on the
\* synchronous path only.  sets: the windows setWindowOpacity was called on,
\* in order; grabs: the grab calls made; handed: the frame stored for the
\* renderer; steps: what the handler did, in order.
GLWidget_on_timer(g, w, needs_hide, grabbed) ==
    IF g.capturing
    THEN [gl |-> g, win |-> w, path |-> "skip", sets |-> <<>>, grabs |-> 0,
          handed |-> NoFrame, steps |-> <<>>]
    ELSE IF g.rect[3] <= 0 \/ g.rect[4] <= 0
    THEN [gl |-> g, win |-> w, path |-> "degenerate", sets |-> <<>>, grabs |-> 0,
          handed |-> NoFrame, steps |-> <<>>]
    ELSE IF needs_hide
    THEN [gl |-> [g EXCEPT !.capturing = TRUE, !.cap_region = g.rect,
                           !.flushing = @ + 1],
          win |-> GLWidget_hide(w).win, path |-> "async",
          sets |-> GLWidget_hide(w).sets, grabs |-> 0,
          handed |-> NoFrame, steps |-> <<"hide">>]
    ELSE GLWidget_sync_tick(g, w, grabbed)

\* _on_timer returning after processEvents() without the single shot
GLWidget_on_timer_schedule_none(g) ==
    [g EXCEPT !.flushing = @ - 1]

\* GLWidget._on_timer after processEvents(): QTimer.singleShot(_CAPTURE_DELAY_MS, ...)
GLWidget_on_timer_schedule(g) ==
    [g EXCEPT !.flushing = @ - 1, !.pending_shots = @ + 1]

\* _finish_mss_capture restoring only the companions that are visible now
GLWidget_finish_mss_capture_visible_only(g, w, grabbed) ==
    IF grabbed.ret = Raised
    THEN [gl |-> [g EXCEPT !.pending_shots = @ - 1], win |-> w, sets |-> <<>>,
          handed |-> NoFrame, steps |-> <<"grab">>]
    ELSE [gl |-> [g EXCEPT !.pending_shots = @ - 1, !.capturing = FALSE,
                           !.pending_frame = IF grabbed.ret # NoFrame THEN grabbed.ret ELSE @],
          win |-> [x \in AppWindows |->
                      IF x = "overlay" \/ w[x].visible THEN [w[x] EXCEPT !.opacity = 1]
                      ELSE w[x]],
          sets |-> <<"overlay">> \o (IF w["toolbar"].visible THEN <<"toolbar">> ELSE <<>>)
                                 \o (IF w["grip"].visible THEN <<"grip">> ELSE <<>>),
          handed |-> grabbed.ret,
          steps |-> <<"grab", "restore">>
                    \o (IF grabbed.ret # NoFrame THEN <<"hand">> ELSE <<>>)
                    \o <<"update", "idle">>]

\* _finish_mss_capture restoring the opacity before it grabs
GLWidget_finish_mss_capture_restore_first(g, w, grabbed) ==
    IF grabbed.ret = Raised
    THEN [gl |-> [g EXCEPT !.pending_shots = @ - 1],
          win |-> [x \in AppWindows |-> [w[x] EXCEPT !.opacity = 1]],
          sets |-> <<"overlay", "toolbar", "grip">>,
          handed |-> NoFrame, steps |-> <<"restore", "grab">>]
    ELSE [gl |-> [g EXCEPT !.pending_shots = @ - 1, !.capturing = FALSE,
                           !.pending_frame = IF grabbed.ret # NoFrame THEN grabbed.ret ELSE @],
          win |-> [x \in AppWindows |-> [w[x] EXCEPT !.opacity = 1]],
          sets |-> <<"overlay", "toolbar", "grip">>,
          handed |-> grabbed.ret,
          steps |-> <<"restore", "grab">>
                    \o (IF grabbed.ret # NoFrame THEN <<"hand">> ELSE <<>>)
                    \o <<"update", "idle">>]

\* _finish_mss_capture restoring the opacity of the overlay only
GLWidget_finish_mss_capture_overlay_only(g, w, grabbed) ==
    IF grabbed.ret = Raised
    THEN [gl |-> [g EXCEPT !.pending_shots = @ - 1], win |-> w, sets |-> <<>>,
          handed |-> NoFrame, steps |-> <<"grab">>]
    ELSE [gl |-> [g EXCEPT !.pending_shots = @ - 1, !.capturing = FALSE,
                           !.pending_frame = IF grabbed.ret # NoFrame THEN grabbed.ret ELSE @],
          win |-> [w EXCEPT !["overlay"].opacity = 1],
          sets |-> <<"overlay">>,
          handed |-> grabbed.ret,
          steps |-> <<"grab", "restore">>
                    \o (IF grabbed.ret # NoFrame THEN <<"hand">> ELSE <<>>)
                    \o <<"update", "idle">>]

\* GLWidget._finish_mss_capture.  grabbed is the result of
\* self._capture.grab(*self._cap_region); when it raised, the handler ends
\* there: nothing after line 279 runs.
GLWidget_finish_mss_capture(g, w, grabbed) ==
    IF grabbed.ret = Raised
    THEN [gl |-> [g EXCEPT !.pending_shots = @ - 1], win |-> w, sets |-> <<>>,
          handed |-> NoFrame, steps |-> <<"grab">>]
    ELSE [gl |-> [g EXCEPT !.pending_shots = @ - 1, !.capturing = FALSE,
                           !.pending_frame = IF grabbed.ret # NoFrame THEN grabbed.ret ELSE @],
          win |-> [x \in AppWindows |-> [w[x] EXCEPT !.opacity = 1]],
          sets |-> <<"overlay", "toolbar", "grip">>,
          handed |-> grabbed.ret,
          steps |-> <<"grab", "restore">>
                    \o (IF grabbed.ret # NoFrame THEN <<"hand">> ELSE <<>>)
                    \o <<"update", "idle">>]

\* GLWidget.resizeGL
GLWidget_resizeGL(g, w, h) ==
    [g EXCEPT !.viewport_w = w, !.viewport_h = h, !.tex_width = 0, !.tex_height = 0]

\* _upload allocating the texture at the viewport's size
GLWidget_upload_viewport(g, frame) ==
    [g EXCEPT !.tex = [frame EXCEPT !.w = g.viewport_w, !.h = g.viewport_h],
              !.tex_width = g.viewport_w, !.tex_height = g.viewport_h]

\* GLWidget._upload: glTexImage2D at the frame's size when it differs from the
\* texture's, glTexSubImage2D over the whole texture otherwise
GLWidget_upload(g, frame) ==
    IF frame.w # g.tex_width \/ frame.h # g.tex_height
    THEN [g EXCEPT !.tex = frame, !.tex_width = frame.w, !.tex_height = frame.h]
    ELSE [g EXCEPT !.tex = frame]

\* what glClear alone leaves in the widget
Blank == [kind |-> "blank"]

\* paintGL drawing the texture whenever it has content
GLWidget_paintGL_any_texture(g) ==
    LET g1 == IF g.pending_frame # NoFrame
              THEN GLWidget_upload([g EXCEPT !.pending_frame = NoFrame], g.pending_frame)
              ELSE g
    IN [gl |-> g1, drawn |-> IF g1.program /\ g1.tex # NoFrame THEN g1.tex ELSE Blank]

\* GLWidget.paintGL: the widget state after it and what it drew
GLWidget_paintGL(g) ==
    LET g1 == IF g.pending_frame # NoFrame
              THEN GLWidget_upload([g EXCEPT !.pending_frame = NoFrame], g.pending_frame)
              ELSE g
    IN [gl |-> g1, drawn |-> IF g1.program /\ g1.tex_width > 0 THEN g1.tex ELSE Blank]

-----------------------------------------------------------------------------
(* The windows' visibility handlers (ui.py, main_window.py) *)

\* TrayIcon._toggle_visibility
TrayIcon_toggle_visibility(w) ==
    [x \in AppWindows |-> [w[x] EXCEPT !.visible = ~w["overlay"].visible]]

\* ToolbarWindow._on_minimize
ToolbarWindow_on_minimize(w) ==
    [x \in AppWindows |-> [w[x] EXCEPT !.visible = FALSE]]

\* OverlayWindow.toggle_fullscreen: the overlay is shown; the grip is hidden
\* when entering full screen and shown when leaving it
OverlayWindow_toggle_fullscreen(g, w) ==
    [gl |-> [g EXCEPT !.fullscreen = ~@],
     win |-> [w EXCEPT !["overlay"].visible = TRUE, !["grip"].visible = g.fullscreen]]

\* GLWidget.cleanup: stop() and the backend's close().  closes: the calls of
\* close() made.
GLWidget_cleanup(g, c, mss_close_raises) ==
    LET r == ScreenCapture_close(c, mss_close_raises) IN
    [gl |-> [g EXCEPT !.timer = FALSE], sc |-> r.st, released |-> r.released,
     raised |-> r.raised, closes |-> 1]

\* OverlayWindow.closeEvent.  An exception leaving cleanup() leaves the
\* handler: the companions are not closed and QApplication.quit() is not
\* called; PyQt ends the process on an exception that leaves a virtual method.
\* QApplication.quit() only asks the event loop to leave: exec_() returns
\* once the loop has finished the events it is dispatching.
OverlayWindow_closeEvent(a, g, w, c, mss_close_raises) ==
    LET r == GLWidget_cleanup(g, c, mss_close_raises) IN
    IF r.raised
    THEN [app |-> [a EXCEPT !.running = FALSE, !.aborted = TRUE], gl |-> r.gl, win |-> w,
          sc |-> r.sc, released |-> r.released, raised |-> TRUE, closes |-> r.closes]
    ELSE [app |-> [a EXCEPT !.running = FALSE, !.exiting = TRUE], gl |-> r.gl,
          win |-> [x \in AppWindows |-> [w[x] EXCEPT !.visible = FALSE]],
          sc |-> r.sc, released |-> r.released, raised |-> FALSE, closes |-> r.closes]

\* the application after main() entered app.exec_()
\* running: the event loop serves the timer and the user; exiting: quit() has
\* been called and exec_() has not returned yet
AppInit == [running |-> TRUE, aborted |-> FALSE, exiting |-> FALSE]

-----------------------------------------------------------------------------
(* Spec: the running application *)

\* the widget's on-screen rectangle
AppRect == <<1, 1, 2, 2>>

InitAppAt(rect) ==
    /\ obj = "App"
    /\ app = AppInit
    /\ \E platform \in Platforms, ctor_raises \in BOOLEAN :
          LET c == ScreenCapture_init(platform, OwnWid, ctor_raises) IN
          /\ sc = c.st
          /\ wc = IF c.st.qt_cap = "WindowCapture" THEN WindowCapture_init(OwnWid)
                  ELSE NoObject
          /\ mac = IF c.st.qt_cap = "MacOSCapture" THEN MacOSCapture_init(OwnWid, "self")
                   ELSE NoObject
          /\ xenv \in (IF c.st.qt_cap = "WindowCapture" THEN BackendXEnvs ELSE {NoXEnv})
          /\ osw \in (IF c.st.qt_cap = "MacOSCapture"
                      THEN {[NoOsw EXCEPT !.window_list = l] :
                               l \in {<<MacEntry("own", 1)>>,
                                      <<MacEntry("own", 1), MacEntry("foreign", 2)>>}}
                      ELSE {NoOsw})
          /\ hist = [HistInit EXCEPT !.ctor =
                        [platform |-> platform, own_window_id |-> OwnWid,
                         ctor_raises |-> ctor_raises, printed |-> c.printed,
                         raised |-> c.raised, qt_cap |-> c.st.qt_cap, mss |-> c.st.mss],
                        !.registrations = 1]
    /\ gl = GLWidget_init(rect)
    /\ win = WinInit
    /\ last = LastNone
    /\ x11 = NoObject /\ w32 = NoObject

InitApp == InitAppAt(AppRect)

\* the opacity trace of the current cycle after setWindowOpacity(v) on each of sets
Traced(trace, sets, v) ==
    [x \in AppWindows |->
        IF \E i \in DOMAIN sets : sets[i] = x THEN Append(trace[x], v) ELSE trace[x]]

\* the sizes the user gives the overlay
ResizeSizes == {<<2, 2>>, <<3, 2>>}

\* what a handler's frame hand-over leaves in the history
Delivered(h, handed) == IF handed # NoFrame THEN [h EXCEPT !.delivered = handed] ELSE h

\* the OS answers a tick may meet: those of its grab when it makes one
TickAnswers ==
    IF gl.capturing \/ ScreenCapture_needs_hide(sc) \/ gl.rect[3] <= 0 \/ gl.rect[4] <= 0
    THEN {CHOOSE a \in ScreenCaptureAnswers(gl.rect) : TRUE}
    ELSE ScreenCaptureAnswers(gl.rect)

\* the timer fires: GLWidget._on_timer (to processEvents() on the hide path)
GL_OnTimer ==
    /\ obj = "App" /\ app.running /\ gl.timer
    /\ (sc.qt_cap = "WindowCapture" /\ ~gl.capturing) =>
          (wc.refresh_counter < MaxGrabs \/ wc.target_wid = 0)
    /\ \E a \in TickAnswers :
          LET g == ScreenCaptureGrab(gl.rect, a)
              r == GLWidget_on_timer(gl, win, ScreenCapture_needs_hide(sc), g) IN
          /\ gl' = r.gl /\ win' = r.win
          /\ sc' = IF r.grabs > 0 THEN g.sc ELSE sc
          /\ wc' = IF r.grabs > 0 THEN g.wc ELSE wc
          /\ mac' = IF r.grabs > 0 THEN g.mac ELSE mac
          /\ last' = [LastNone EXCEPT !.op = "on_timer", !.path = r.path,
                         !.guard = gl.capturing, !.sets = r.sets, !.grabs = r.grabs,
                         !.region = IF r.grabs > 0 THEN gl.rect ELSE <<0, 0, 0, 0>>,
                         !.ret = IF r.grabs > 0 THEN g.ret ELSE NoFrame,
                         !.direct = IF r.grabs > 0 THEN g.direct ELSE NoFrame,
                         !.oscalls = IF r.grabs > 0 THEN g.oscalls ELSE {},
                         !.via = IF r.grabs > 0 THEN g.via ELSE {},
                         !.shown = IF r.grabs > 0 THEN Shown ELSE FALSE,
                         !.own_opacity = win["overlay"].opacity,
                         !.handed = r.handed, !.steps = r.steps]
          /\ hist' = IF r.path = "async"
                     THEN [hist EXCEPT !.cycle = "running",
                              !.vis_at_start = {x \in Companions : win[x].visible},
                              !.trace = Traced([x \in AppWindows |-> <<win[x].opacity>>],
                                               r.sets, 0),
                              !.steps = r.steps]
                     ELSE Delivered(hist, r.handed)
    /\ UNCHANGED <<app, obj, xenv, osw, x11, w32>>

\* processEvents() returned: the delayed capture is scheduled
GL_OnTimerSchedule ==
    /\ obj = "App" /\ gl.flushing > 0
    /\ gl' = GLWidget_on_timer_schedule(gl)
    /\ last' = [LastNone EXCEPT !.op = "on_timer_schedule", !.scheduled = 1]
    /\ hist' = [hist EXCEPT !.steps = @ \o <<"flush", "schedule">>]
    /\ UNCHANGED <<app, obj, xenv, osw, sc, wc, x11, mac, w32, win>>

\* the delayed callback fires: GLWidget._finish_mss_capture
GL_FinishMssCapture ==
    /\ obj = "App" /\ (app.running \/ app.exiting) /\ gl.pending_shots > 0
    /\ \E a \in ScreenCaptureAnswers(gl.cap_region) :
          LET g == ScreenCaptureGrab(gl.cap_region, a)
              r == GLWidget_finish_mss_capture(gl, win, g) IN
          /\ gl' = r.gl /\ win' = r.win
          /\ sc' = g.sc /\ wc' = g.wc /\ mac' = g.mac
          /\ last' = [LastNone EXCEPT !.op = "finish_mss_capture", !.path = "async",
                         !.sets = r.sets, !.grabs = 1, !.region = gl.cap_region,
                         !.ret = g.ret, !.direct = g.direct, !.oscalls = g.oscalls,
                         !.via = g.via, !.shown = Shown,
                         !.own_opacity = win["overlay"].opacity,
                         !.handed = r.handed, !.steps = r.steps]
          /\ hist' = [Delivered(hist, r.handed) EXCEPT
                         !.cycle = IF g.ret = Raised THEN "raised" ELSE "done",
                         !.trace = Traced(@, r.sets, 1),
                         !.steps = @ \o <<"delay">> \o r.steps]
    /\ UNCHANGED <<app, obj, xenv, osw, x11, w32>>

\* Qt repaints the widget (after update() or an expose): GLWidget.paintGL
GL_Paint ==
    /\ obj = "App" /\ app.running /\ win["overlay"].visible
    /\ LET r == GLWidget_paintGL(gl) IN
          /\ gl' = r.gl
          /\ last' = [LastNone EXCEPT !.op = "paintGL", !.drawn = r.drawn,
                         !.uploaded = gl.pending_frame]
    /\ UNCHANGED <<app, obj, xenv, osw, sc, wc, x11, mac, w32, win, hist>>

\* the widget gets a new size: QOpenGLWidget's resize event calls
\* GLWidget.resizeGL and then repaints
GL_Resize ==
    /\ obj = "App" /\ app.running /\ win["overlay"].visible
    /\ \E size \in ResizeSizes :
          /\ size # <<gl.rect[3], gl.rect[4]>>
          /\ LET g1 == GLWidget_resizeGL([gl EXCEPT !.rect = <<@[1], @[2], size[1], size[2]>>],
                                         size[1], size[2])
                 r == GLWidget_paintGL(g1) IN
                /\ gl' = r.gl
                /\ last' = [LastNone EXCEPT !.op = "resizeGL", !.drawn = r.drawn,
                               !.uploaded = gl.pending_frame]
    /\ UNCHANGED <<app, obj, xenv, osw, sc, wc, x11, mac, w32, win, hist>>

\* the user picks Show / Hide in the tray menu or clicks the tray icon
User_TrayToggle ==
    /\ obj = "App" /\ app.running
    /\ win' = TrayIcon_toggle_visibility(win)
    /\ UNCHANGED <<app, obj, xenv, osw, sc, wc, x11, mac, w32, gl, last, hist>>

\* the user clicks the toolbar's minimize button
User_Minimize ==
    /\ obj = "App" /\ app.running /\ win["toolbar"].visible
    /\ win' = ToolbarWindow_on_minimize(win)
    /\ UNCHANGED <<app, obj, xenv, osw, sc, wc, x11, mac, w32, gl, last, hist>>

\* the user presses F11 or clicks the toolbar's full-screen button
User_ToggleFullscreen ==
    /\ obj = "App" /\ app.running /\ (win["toolbar"].visible \/ win["overlay"].visible)
    /\ LET r == OverlayWindow_toggle_fullscreen(gl, win) IN gl' = r.gl /\ win' = r.win
    /\ UNCHANGED <<app, obj, xenv, osw, sc, wc, x11, mac, w32, last, hist>>

\* the user clicks the toolbar's close button or picks Quit in the tray menu:
\* ToolbarWindow._on_close / TrayIcon._on_quit -> overlay.close() -> closeEvent
User_Quit ==
    /\ obj = "App" /\ app.running
    /\ \E mss_close_raises \in BOOLEAN :
          LET r == OverlayWindow_closeEvent(app, gl, win, sc, mss_close_raises) IN
          /\ app' = r.app /\ gl' = r.gl /\ win' = r.win /\ sc' = r.sc
          /\ last' = [LastNone EXCEPT !.op = "closeEvent", !.steps = r.released,
                         !.ret = IF r.raised THEN Raised ELSE NoFrame]
          /\ hist' = [hist EXCEPT !.closes = @ + r.closes]
    /\ UNCHANGED <<obj, xenv, osw, wc, x11, mac, w32>>

\* the event loop has done with the events it was dispatching when quit()
\* was called: app.exec_() returns (app.py line 79) and the process ends
App_ExecReturns ==
    /\ obj = "App" /\ app.exiting
    /\ app' = [app EXCEPT !.exiting = FALSE]
    /\ UNCHANGED <<obj, xenv, osw, sc, wc, x11, mac, w32, gl, win, last, hist>>

Next ==
    \/ GL_OnTimer \/ GL_OnTimerSchedule \/ GL_FinishMssCapture
    \/ User_TrayToggle \/ User_Minimize \/ User_ToggleFullscreen \/ User_Quit
    \/ App_ExecReturns
    \/ (obj = "App" /\ app.running /\ WC_DetectFind)
    \/ (obj = "App" /\ app.running /\ WC_DetectPublish)

Spec == InitApp /\ [][Next]_vars

-----------------------------------------------------------------------------
(* SpecCycle: the running application over the mss fallback, where every
   capture is an asynchronous cycle.  processEvents() returns and a scheduled
   single shot fires: both are weakly fair.  The timer and the user are not
   obliged to act. *)

InitCycle == InitApp /\ ScreenCapture_needs_hide(sc)

NextCycle ==
    \/ GL_OnTimer \/ GL_OnTimerSchedule \/ GL_FinishMssCapture
    \/ User_TrayToggle \/ User_Minimize \/ User_ToggleFullscreen

SpecCycle ==
    /\ InitCycle /\ [][NextCycle]_vars
    /\ WF_vars(GL_OnTimerSchedule) /\ WF_vars(GL_FinishMssCapture)

-----------------------------------------------------------------------------
(* SpecRender: the running application with its renderer: ticks, repaints
   and resizes *)

NextRender ==
    \/ GL_OnTimer \/ GL_OnTimerSchedule \/ GL_FinishMssCapture
    \/ GL_Paint \/ GL_Resize
    \/ (obj = "App" /\ WC_DetectFind)
    \/ (obj = "App" /\ WC_DetectPublish)

SpecRender == InitApp /\ [][NextRender]_vars

\* the rectangles mapToGlobal(), width() and height() may report for the widget
TickRects == {AppRect, <<1, 1, 0, 2>>, <<1, 1, 2, 0>>}

\* The application over a direct backend: every tick takes the synchronous path
InitSync == (\E rect \in TickRects : InitAppAt(rect)) /\ ~ScreenCapture_needs_hide(sc)

NextSync ==
    \/ GL_OnTimer
    \/ User_TrayToggle \/ User_Minimize
    \/ (obj = "App" /\ WC_DetectFind)
    \/ (obj = "App" /\ WC_DetectPublish)

SpecSync == InitSync /\ [][NextSync]_vars

-----------------------------------------------------------------------------
(* Properties of the capture cycle (Spec) *)

\* C1: no frame handed to the renderer contains the application's own
\* windows: a frame obtained by a synchronous tick comes from the direct
\* backend, never from _mss_grab, and an unfiltered desktop grab is taken
\* only while the own window's opacity is 0.
C1_NoOwnWindowInFrames ==
    obj = "App" =>
        /\ (last.op = "on_timer" /\ last.path = "sync" /\ last.ret # NoFrame
               /\ last.ret # Raised) => last.ret.src # "mss"
        /\ "mss" \in last.via => last.own_opacity = 0
        /\ gl.pending_frame # NoFrame => ~gl.pending_frame.own

\* the windows the current cycle hid: the overlay and the companions that
\* were visible when the tick began
HiddenByCycle == {"overlay"} \cup hist.vis_at_start

\* C2: over one asynchronous tick the opacity of the own window and of every
\* companion visible at tick start goes 1, 0, 1: it is 1, 0 while the cycle
\* runs and 1, 0, 1 once the grab has returned a frame or None.
C2_OpacityTrace ==
    obj = "App" =>
        /\ hist.cycle = "running" => \A w \in HiddenByCycle : hist.trace[w] = <<1, 0>>
        /\ hist.cycle = "done" => \A w \in HiddenByCycle : hist.trace[w] = <<1, 0, 1>>

\* a cycle whose grab returned None has ended, and the user hid the toolbar
\* while it ran
C2_Witness ==
    /\ obj = "App" /\ hist.cycle = "done"
    /\ last.op = "finish_mss_capture" /\ last.ret = NoFrame
    /\ hist.vis_at_start = Companions
    /\ ~win["toolbar"].visible /\ ~gl.capturing

\* C3: once the grab step of a cycle is over, whatever its outcome (a frame,
\* None, or an error raised by grab), every window the cycle hid is back at
\* opacity 1 and the re-entrancy guard is cleared.
C3_RestoredWhateverTheGrabDid ==
    (obj = "App" /\ last.op = "finish_mss_capture") =>
        /\ ~gl.capturing
        /\ \A w \in HiddenByCycle : win[w].opacity = 1

\* C4: a tick that arrives while a cycle is in flight sets no opacity, makes
\* no grab and starts no second cycle; at most one cycle is in flight, and
\* the guard is set while it is.
C4_OneCycleInFlight ==
    obj = "App" =>
        /\ (last.op = "on_timer" /\ last.guard) =>
               last.path = "skip" /\ last.sets = <<>> /\ last.grabs = 0
        /\ gl.flushing + gl.pending_shots <= 1
        /\ gl.flushing + gl.pending_shots = 1 => gl.capturing

\* a tick arrived while the delayed capture was pending
C4_Witness ==
    /\ obj = "App" /\ last.op = "on_timer" /\ last.guard
    /\ gl.pending_shots = 1 /\ gl.capturing /\ win["overlay"].opacity = 0

-----------------------------------------------------------------------------
(* Properties of the renderer (SpecRender) and of failed grabs (Spec) *)

\* C11: whatever dimensions the backend's frame has relative to the requested
\* region, the coordinator stores exactly that frame for the renderer on both
\* paths, and the renderer's texture takes the frame's own width and height
\* and is drawn as that frame.
C11_DimensionIndependence ==
    obj = "App" =>
        /\ (last.op \in {"on_timer", "finish_mss_capture"} /\ last.grabs = 1
               /\ last.ret # NoFrame /\ last.ret # Raised) =>
               last.handed = last.ret /\ gl.pending_frame = last.ret
        /\ (last.op \in {"paintGL", "resizeGL"} /\ last.uploaded # NoFrame) =>
               /\ gl.tex = last.uploaded /\ last.drawn = last.uploaded
               /\ gl.tex_width = last.uploaded.w /\ gl.tex_height = last.uploaded.h

\* a repaint uploaded a frame that is wider than the widget
C11_Witness ==
    /\ obj = "App" /\ last.op = "paintGL" /\ last.uploaded # NoFrame
    /\ last.uploaded.w > gl.rect[3] /\ last.uploaded.w # gl.viewport_w
    /\ gl.tex_width = last.uploaded.w

\* C12: once a frame has been delivered, every redraw (a repaint, or the
\* repaint of a resize) draws the most recently delivered frame, never a
\* blank one.
C12_LastFrameAlwaysDrawn ==
    (obj = "App" /\ last.op \in {"paintGL", "resizeGL"} /\ hist.delivered # NoFrame) =>
        last.drawn = hist.delivered

\* C13: a tick on which the selected direct backend's grab returned None
\* hands no frame to the renderer.
C13_FailedGrabHandsNothing ==
    (obj = "App" /\ last.op \in {"on_timer", "finish_mss_capture"} /\ last.grabs = 1
        /\ sc.qt_cap # "None" /\ last.direct = NoFrame) =>
        last.handed = NoFrame

\* C15: over any run the backend's close() is called at most once, exactly
\* when the application shuts down, and it runs to completion: it returns
\* without raising and leaves no mss handle open, whatever the release calls
\* met.
C15_ClosedOnceAndCompletely ==
    obj = "App" =>
        /\ hist.closes <= 1
        /\ (hist.closes = 1) = ~app.running
        /\ last.op = "closeEvent" =>
               /\ last.ret # Raised /\ ~app.aborted
               /\ sc.mss # "open"
               /\ \A x \in AppWindows : ~win[x].visible

\* the steps of a cycle up to the grab, and the two ways it goes on once the
\* grab has returned
CycleToGrab == <<"hide", "flush", "schedule", "delay", "grab">>

CycleWithFrame == CycleToGrab \o <<"restore", "hand", "update", "idle">>

CycleWithoutFrame == CycleToGrab \o <<"restore", "update", "idle">>

\* C18: a capture cycle exists only when needs_hide is true and goes hide,
\* flush of the pending events, delay, one grab taken at opacity 0, restore,
\* hand-over of the frame (if any), redraw request, idle, in this order;
\* a tick on this path never grabs by itself.
C18_CyclePhases ==
    obj = "App" =>
        /\ hist.cycle # "none" => ScreenCapture_needs_hide(sc)
        /\ hist.cycle = "running" =>
               \E n \in {1, 3} : hist.steps = SubSeq(CycleToGrab, 1, n)
        /\ hist.cycle = "raised" => hist.steps = CycleToGrab
        /\ hist.cycle = "done" => hist.steps \in {CycleWithFrame, CycleWithoutFrame}
        /\ (last.op = "finish_mss_capture" /\ hist.cycle = "done") =>
               (hist.steps = CycleWithFrame) = (last.ret # NoFrame)
        /\ last.op = "finish_mss_capture" => last.own_opacity = 0 /\ last.grabs = 1
        /\ (last.op = "on_timer" /\ ScreenCapture_needs_hide(sc)) => last.grabs = 0

\* a cycle ran through all its phases and handed a frame over
C18_Witness ==
    /\ obj = "App" /\ hist.cycle = "done" /\ hist.steps = CycleWithFrame
    /\ last.op = "finish_mss_capture" /\ gl.pending_frame = last.ret
    /\ ~gl.capturing /\ win["overlay"].opacity = 1 /\ hist.vis_at_start = {}

-----------------------------------------------------------------------------
(* SpecWalk: the stacking walk of both X11 backends on drawn X servers *)

Range(f) == {f[i] : i \in DOMAIN f}

\* every ordering of the windows of S, bottom-to-top as _NET_CLIENT_LIST_STACKING
Orderings(S) ==
    {f \in [1 .. Cardinality(S) -> S] : \A i, j \in DOMAIN f : i # j => f[i] # f[j]}

\* geometries of the other windows: unreadable, beside the region, inside it,
\* covering it (window sizes are at least 1 x 1)
WalkGeoms == {NoGeom, <<1, 0, 3, 1>>, <<2, 2, 2, 2>>, <<0, 0, 4, 4>>}

WalkRegions == {<<1, 1, 2, 2>>}

\* the own window is in the managed stacking list, or (a tool window) not
WalkEnvs ==
    {[stacking |-> o, geom |-> [w \in Windows |-> IF w = OwnWid THEN <<1, 1, 2, 2>> ELSE g[w]]] :
        o \in Orderings(Windows) \cup Orderings(Windows \ {OwnWid}),
        g \in [Windows \ {OwnWid} -> WalkGeoms]}

InitWalk ==
    /\ obj = "Walk"
    /\ app = NoObject
    /\ xenv \in WalkEnvs
    /\ \E r \in WalkRegions : last = [LastNone EXCEPT !.region = r]
    /\ osw = NoOsw /\ sc = NoObject /\ wc = NoObject /\ x11 = NoObject
    /\ mac = NoObject /\ w32 = NoObject /\ gl = NoObject /\ win = WinInit
    /\ hist = HistInit

\* WindowCapture._find_target(sx, sy, sw, sh)
Walk_WindowCapture ==
    /\ obj = "Walk"
    /\ last' = [last EXCEPT !.op = "WindowCapture._find_target",
                   !.target = WindowCapture_find_target(xenv, OwnWid, last.region[1],
                                  last.region[2], last.region[3], last.region[4]).wid]
    /\ UNCHANGED <<app, obj, xenv, osw, sc, wc, x11, mac, w32, gl, win, hist>>

\* X11DirectCapture._find_target_window(sx, sy, sw, sh)
Walk_X11DirectCapture ==
    /\ obj = "Walk"
    /\ last' = [last EXCEPT !.op = "X11DirectCapture._find_target_window",
                   !.target = X11DirectCapture_find_target_window(xenv, OwnWid,
                                  last.region[1], last.region[2], last.region[3],
                                  last.region[4])]
    /\ UNCHANGED <<app, obj, xenv, osw, sc, wc, x11, mac, w32, gl, win, hist>>

NextWalk == Walk_WindowCapture \/ Walk_X11DirectCapture

SpecWalk == InitWalk /\ [][NextWalk]_vars

-----------------------------------------------------------------------------
(* Properties of the stacking walk *)

\* the pixels of a rectangle
Pixels(r) == {<<px, py>> : px \in r[1] .. r[1] + r[3] - 1, py \in r[2] .. r[2] + r[4] - 1}

\* positions of the stacking list below the own window whose window has a
\* readable bounding box sharing a pixel with the region
OverlappingBelow ==
    {i \in DOMAIN xenv.stacking :
        /\ \E j \in DOMAIN xenv.stacking : xenv.stacking[j] = OwnWid /\ i < j
        /\ xenv.geom[xenv.stacking[i]] # NoGeom
        /\ Pixels(xenv.geom[xenv.stacking[i]]) \cap Pixels(last.region) # {}}

Walked == last.op \in {"WindowCapture._find_target", "X11DirectCapture._find_target_window"}

\* C7: when the own window is in the stacking list, both walks resolve the
\* topmost window stacked below the own window whose readable bounding box
\* overlaps the region (and no window when there is none): never the own
\* window, a window above it, a non-overlapping or an unreadable one.
C7_StackingWalk ==
    (Walked /\ OwnWid \in Range(xenv.stacking)) =>
        IF OverlappingBelow = {} THEN last.target = 0
        ELSE last.target = xenv.stacking[Max(OverlappingBelow)]

\* C7 witness: front-to-back [A, self, C, D] with A overlapping, C beside the
\* region and D overlapping resolves to D
C7_Witness ==
    /\ Walked
    /\ Len(xenv.stacking) = NumWin
    /\ xenv.stacking[NumWin - 1] = OwnWid
    /\ xenv.geom[xenv.stacking[NumWin]] = <<0, 0, 4, 4>>
    /\ xenv.geom[xenv.stacking[NumWin - 2]] = <<1, 0, 3, 1>>
    /\ xenv.geom[xenv.stacking[NumWin - 3]] = <<2, 2, 2, 2>>
    /\ last.target = xenv.stacking[NumWin - 3]

-----------------------------------------------------------------------------
(* Properties of the backends (SpecBackend) *)

\* the preferred backend of the platform exists and its constructor returned
DirectConstructed ==
    /\ hist.ctor.own_window_id # 0
    /\ hist.ctor.platform \in {"darwin", "linux"}
    /\ ~hist.ctor.ctor_raises

\* C5: ScreenCapture.needs_hide is false exactly when the direct backend
\* (MacOSCapture or WindowCapture) was constructed, true when mss is the
\* backend selected at construction; Win32Capture.needs_hide is true exactly
\* when the window system rejected the exclusion flag on the own window.
C5_NeedsHide ==
    /\ obj = "ScreenCapture" =>
          /\ ScreenCapture_needs_hide(sc) = ~DirectConstructed
          /\ ScreenCapture_needs_hide(sc) = (hist.ctor.mss = "open")
          /\ ScreenCapture_is_direct(sc) = DirectConstructed
    /\ obj = "Win32Capture" =>
          Win32Capture_needs_hide(w32) = ("overlay" \notin osw.accepts)

\* C5 witness: a direct backend whose grab returned None, so that the mss
\* handle exists as well, and needs_hide is still false
C5_Witness ==
    /\ obj = "ScreenCapture" /\ last.op = "grab"
    /\ sc.qt_cap = "WindowCapture" /\ sc.mss = "open"
    /\ ~ScreenCapture_needs_hide(sc)

ForeignIds ==
    {e.wid : e \in {x \in Range(osw.window_list) :
                        x.info /\ x.pid_ok /\ x.wid_ok /\ x.pid # "self"}}

OwnIds ==
    {e.wid : e \in {x \in Range(osw.window_list) : x.info /\ x.pid_ok /\ x.pid = "self"}}

\* C8: the id list MacOSCapture hands to the compositor holds every window a
\* foreign process owns and none the own process owns, whether or not
\* companion windows were registered.
C8_ProcessFilter ==
    (obj = "MacOSCapture" /\ last.op = "grab" /\ last.composited) =>
        /\ Range(last.passed) = ForeignIds
        /\ Range(last.passed) \cap OwnIds = {}

\* C8 witness: 5 windows, 3 own and 2 foreign, companions registered:
\* exactly the 2 foreign ids are passed
C8_Witness ==
    /\ obj = "MacOSCapture" /\ last.op = "grab" /\ last.composited
    /\ hist.registrations > 0
    /\ Len(osw.window_list) = 5
    /\ Cardinality(OwnIds) = 3 /\ Cardinality(ForeignIds) = 2
    /\ Len(last.passed) = 2

\* C9: after Win32Capture.close a clear call was issued for the own handle and
\* for every handle ever passed to set_companion_windows, and no window of the
\* application is left flagged.
C9_AffinityRestored ==
    (obj = "Win32Capture" /\ hist.closed) =>
        /\ ({"overlay"} \cup hist.ever_passed) \subseteq hist.cleared
        /\ osw.flagged = {}

\* C9 witness: both companions were registered in two calls, every flag was
\* accepted, and close ran
C9_Witness ==
    /\ obj = "Win32Capture" /\ hist.closed
    /\ hist.registrations = 2 /\ hist.ever_passed = Companions
    /\ osw.accepts = AppWindows /\ Len(w32.companion_hwnds) >= 2

\* C10 as claimed: a grab of a degenerate region returns None with no OS call
\* and no change of the backend object
C10_DegenerateGrabIsNoOp ==
    (last.op = "grab" /\ Degenerate(last.region)) =>
        /\ last.ret = NoFrame
        /\ last.oscalls = {}
        /\ ~last.changed

-----------------------------------------------------------------------------
(* Properties of the cached target (SpecStale) *)

\* a window below the own one in the stacking order overlaps the widget's region
LiveTargetExists ==
    \E i, j \in DOMAIN xenv.stacking :
        /\ i < j /\ xenv.stacking[j] = OwnWid
        /\ xenv.geom[xenv.stacking[i]] # NoGeom
        /\ Pixels(xenv.geom[xenv.stacking[i]]) \cap Pixels(<<1, 1, 2, 2>>) # {}

\* the object is a WindowCapture that is still open
WindowCaptureInUse ==
    obj = "WindowCapture" /\ ~hist.closed

\* C14: a WindowCapture.grab that meets a null pixmap returns None and
\* clears the cached target id; a grab entered with no cached target leaves
\* the detection thread running; and whenever no target is cached while a
\* window below the own one overlaps the region, a window that exists is
\* eventually cached (unless the backend is closed or that window goes too).
C14_StaleTarget ==
    /\ [](last.det.null_pixmap => last.det.ret = NoFrame /\ last.det.exit_target = 0)
    /\ []((last.det.called /\ last.det.entry_target = 0) => last.det.alive_after)
    /\ (WindowCaptureInUse /\ wc.target_wid = 0 /\ LiveTargetExists)
          ~> (~WindowCaptureInUse \/ ~LiveTargetExists
                 \/ (wc.target_wid # 0 /\ InStacking(xenv, wc.target_wid)))

\* the cached window vanished, a grab met the null pixmap, and a later grab's
\* detection has cached another window
C14_Witness ==
    /\ WindowCaptureInUse /\ hist.stale # 0 /\ ~InStacking(xenv, hist.stale)
    /\ wc.target_wid # 0 /\ wc.target_wid # hist.stale
    /\ InStacking(xenv, wc.target_wid) /\ wc.detect_thread = "dead"

-----------------------------------------------------------------------------
(* Properties of the selected backend (SpecBackend) *)

\* C16: the backend variant chosen by the constructor, and with it
\* needs_hide and is_direct, stay what they were at construction across every
\* grab (successful or failed), set_companion_windows and close.
C16_SelectedOnce ==
    obj \in {"ScreenCapture", "App"} =>
        /\ sc.qt_cap = hist.ctor.qt_cap
        /\ ScreenCapture_needs_hide(sc) = (hist.ctor.qt_cap = "None")
        /\ ScreenCapture_is_direct(sc) = (hist.ctor.qt_cap # "None")

\* a direct backend's grab failed, the mss fallback was used, companions were
\* registered, and the object was closed
C16_Witness ==
    /\ obj = "ScreenCapture" /\ hist.ctor.qt_cap = "WindowCapture"
    /\ sc.mss = "closed" /\ hist.registrations > 0 /\ hist.closed
    /\ ScreenCapture_is_direct(sc)

\* C17: Win32Capture.close issues a clear call for the own handle and then
\* for every tracked companion handle, in order, whether or not an earlier
\* clear call failed; it then releases the mss handle; a failed clear call
\* never makes close raise.
C17_RestorationFailureNotFatal ==
    (obj = "Win32Capture" /\ hist.closed /\ last.op = "close") =>
        /\ last.steps = <<w32.own_hwnd>> \o w32.companion_hwnds
        /\ "mss.close" \in last.oscalls
        /\ ~last.guard => (last.ret # Raised /\ w32.mss = "closed")

\* the clear call failed for the toolbar, the first companion, and close went
\* on to clear the grip's flag and to release the mss handle
C17_Witness ==
    /\ obj = "Win32Capture" /\ hist.closed /\ last.op = "close"
    /\ w32.companion_hwnds = <<"toolbar", "grip">>
    /\ osw.accepts = {"overlay", "grip"} /\ osw.flagged = {}
    /\ last.ret # Raised /\ w32.mss = "closed"

-----------------------------------------------------------------------------
(* SpecRead: X11DirectCapture._read_from_window on one window *)

\* the largest origin coordinate and the largest side of the window read
MaxOrigin == 3

MaxSide == 3

\* the window's bounding box as the server reports it, or none
ReadGeoms ==
    {NoGeom} \cup {<<wx, wy, ww, wh>> : wx \in 0 .. MaxOrigin, wy \in 0 .. MaxOrigin,
                                        ww \in 1 .. MaxSide, wh \in 1 .. MaxSide}

InitRead ==
    /\ obj = "Read"
    /\ app = NoObject
    /\ \E g \in ReadGeoms :
          xenv = [stacking |-> <<1, OwnWid>>,
                  geom |-> [w \in Windows |-> IF w = OwnWid THEN <<1, 1, 2, 2>>
                                              ELSE IF w = 1 THEN g ELSE NoGeom]]
    /\ last = [LastNone EXCEPT !.region = <<1, 1, 2, 2>>]
    /\ osw = NoOsw /\ sc = NoObject /\ wc = NoObject /\ x11 = NoObject
    /\ mac = NoObject /\ w32 = NoObject /\ gl = NoObject /\ win = WinInit
    /\ hist = HistInit

\* X11DirectCapture._read_from_window(wid, sx, sy, sw, sh)
Read_X11DirectCapture ==
    /\ obj = "Read"
    /\ \E image_null \in BOOLEAN, bpp \in {24, 32, 16} :
          LET r == X11DirectCapture_read_from_window(xenv, 1, last.region[1],
                       last.region[2], last.region[3], last.region[4], image_null, bpp) IN
          last' = [last EXCEPT !.op = "X11DirectCapture._read_from_window",
                      !.target = 1, !.ret = r.ret, !.px = r.px, !.oscalls = r.oscalls,
                      !.rect = IF "XGetImage" \in r.oscalls
                               THEN X11DirectCapture_clip(xenv.geom[1], last.region[1],
                                        last.region[2], last.region[3], last.region[4])
                               ELSE <<>>]
    /\ UNCHANGED <<app, obj, xenv, osw, sc, wc, x11, mac, w32, gl, win, hist>>

\* WindowCapture.grab(sx, sy, sw, sh) on an object whose cache holds the window
\* with the bounding box the server reports
Read_WindowCapture ==
    /\ obj = "Read" /\ xenv.geom[1] # NoGeom
    /\ \E pixmap_null \in BOOLEAN :
          LET st == [WindowCapture_init(OwnWid) EXCEPT !.target_wid = 1,
                                                      !.target_geom = xenv.geom[1]]
              g  == WindowCapture_grab(st, last.region[1], last.region[2], last.region[3],
                                       last.region[4], pixmap_null) IN
          last' = [last EXCEPT !.op = "WindowCapture.grab", !.target = 1, !.ret = g.ret,
                      !.px = <<>>, !.oscalls = g.oscalls,
                      !.rect = IF "grabWindow" \in g.oscalls
                               THEN WindowCapture_clip(xenv.geom[1], last.region[1],
                                        last.region[2], last.region[3], last.region[4])
                               ELSE <<>>]
    /\ UNCHANGED <<app, obj, xenv, osw, sc, wc, x11, mac, w32, gl, win, hist>>

NextRead == Read_X11DirectCapture \/ Read_WindowCapture

SpecRead == InitRead /\ [][NextRead]_vars

-----------------------------------------------------------------------------
(* Properties of target resolution (SpecWalk) and of the padded read (SpecRead) *)

\* the windows of the stacking list other than the own one whose readable
\* bounding box shares a pixel with the region
OverlappingAny ==
    {w \in Range(xenv.stacking) \ {OwnWid} :
        /\ xenv.geom[w] # NoGeom
        /\ Pixels(xenv.geom[w]) \cap Pixels(last.region) # {}}

Area(w) == xenv.geom[w][3] * xenv.geom[w][4]

\* C19: when no window below the own one overlaps the region (the own
\* window being in the stacking list or not), both resolutions give a
\* largest-area window among all that overlap the region, and no target only
\* if none overlaps.
C19_StackingFallback ==
    (Walked /\ OverlappingBelow = {}) =>
        IF OverlappingAny = {} THEN last.target = 0
        ELSE /\ last.target \in OverlappingAny
             /\ \A v \in OverlappingAny : Area(last.target) >= Area(v)

\* C20: when the window read covers only part of the region, the frame
\* _read_from_window returns has the region's size, each of its pixels whose
\* screen position is inside the window is the window's pixel at that
\* position, and every other pixel is opaque black.
C20_PaddedRead ==
    (obj = "Read" /\ last.op = "X11DirectCapture._read_from_window" /\ last.ret # NoFrame
        /\ ~(Pixels(last.region) \subseteq Pixels(xenv.geom[last.target]))) =>
        /\ last.ret.w = last.region[3] /\ last.ret.h = last.region[4]
        /\ DOMAIN last.px = (0 .. last.region[3] - 1) \X (0 .. last.region[4] - 1)
        /\ \A p \in DOMAIN last.px :
              LET pos == <<last.region[1] + p[1], last.region[2] + p[2]>> IN
              last.px[p] = IF pos \in Pixels(xenv.geom[last.target]) THEN pos ELSE Black

\* the part of the region inside the bounding box g, as <<x0, y0, x1, y1>>
\* in screen coordinates (empty when x0 >= x1 or y0 >= y1)
Intersection(r, g) ==
    <<Max2(r[1], g[1]), Max2(r[2], g[2]),
      Min2(r[1] + r[3], g[1] + g[3]), Min2(r[2] + r[4], g[2] + g[4])>>

\* C21: the rectangle WindowCapture.grab and _read_from_window read from the
\* target is the intersection of the region with the target's bounding box,
\* in target-local coordinates; when the intersection is empty nothing is
\* read and None is returned.
C21_RegionToLocal ==
    (obj = "Read" /\ last.op \in {"WindowCapture.grab", "X11DirectCapture._read_from_window"}
        /\ xenv.geom[1] # NoGeom) =>
        LET g == xenv.geom[1]
            i == Intersection(last.region, g) IN
        IF i[1] >= i[3] \/ i[2] >= i[4]
        THEN last.rect = <<>> /\ last.ret = NoFrame
        ELSE last.rect = <<i[1] - g[1], i[2] - g[2], i[3] - i[1], i[4] - i[2]>>

-----------------------------------------------------------------------------
(* Properties of the target cache under the detection thread (SpecBackend) *)

\* C22: a WindowCapture.grab entered with a cached target id reads a
\* geometry that was published for that same window (never the geometry of
\* another window, never the initial one).
C22_CachePairAtomic ==
    (last.det.called /\ last.det.entry_target # 0) =>
        last.det.geom_of = last.det.entry_target

-----------------------------------------------------------------------------
(* Properties of the refresh of the target cache (SpecCadence) *)

\* C23: a WindowCapture.grab starts a detection thread exactly when it is
\* due one (no target cached, or the 300th grab since the last due one) and
\* no thread is running, and its counter is the number of grabs since the
\* last due one; a frame it returns is cut from the geometry last published;
\* outside a publication the cache holds the last published geometry and the
\* last published target (or no target after a null pixmap), so a detection
\* that found nothing changed neither.
C23_RefreshCadence ==
    (obj = "WindowCapture") =>
        /\ last.det.called =>
              /\ ("Thread.start" \in last.oscalls) <=>
                     (hist.since = 0 /\ ~last.det.entry_alive)
              /\ last.det.exit_counter = hist.since
              /\ last.ret # NoFrame =>
                     LET c == Intersection(last.region, last.det.pub_geom) IN
                     last.ret.w = c[3] - c[1] /\ last.ret.h = c[4] - c[2]
        /\ wc.detect_pc # "publish_geom" =>
              /\ wc.target_geom = hist.pub_geom
              /\ wc.target_wid \in {0, hist.geom_of}

\* the 300th grab against a cached target has started a detection for a
\* region nothing overlaps, and the thread has ended without a publication
C23_Witness ==
    /\ obj = "WindowCapture" /\ last.det.called /\ last.det.entry_target # 0
    /\ "Thread.start" \in last.oscalls /\ hist.since = 0
    /\ wc.detect_thread = "dead" /\ wc.target_wid = last.det.entry_target
    /\ wc.refresh_counter = 0

-----------------------------------------------------------------------------
(* Properties of the synchronous path (SpecSync) *)

\* the number of redraw requests among the steps of a handler
Redraws(steps) == Cardinality({i \in DOMAIN steps : steps[i] = "update"})

\* C24: with needs_hide false, a tick whose region is not degenerate makes
\* one grab and, once the grab has returned, has stored the frame exactly if
\* there is one and has requested one redraw; a tick whose region is
\* degenerate grabs, stores and requests nothing; neither sets an opacity or
\* the re-entrancy guard.
C24_SynchronousTick ==
    (obj = "App" /\ last.op = "on_timer" /\ ~ScreenCapture_needs_hide(sc)) =>
        /\ ~gl.capturing /\ ~last.guard /\ last.sets = <<>>
        /\ \A x \in AppWindows : win[x].opacity = 1
        /\ gl.pending_frame = hist.delivered
        /\ IF gl.rect[3] <= 0 \/ gl.rect[4] <= 0
           THEN /\ last.path = "degenerate" /\ last.grabs = 0 /\ last.oscalls = {}
                /\ last.handed = NoFrame /\ Redraws(last.steps) = 0
           ELSE /\ last.path = "sync" /\ last.grabs = 1
                /\ last.ret \notin {Raised, NoFrame} =>
                      /\ last.handed = last.ret /\ hist.delivered = last.ret
                      /\ Redraws(last.steps) = 1
                /\ last.ret = NoFrame =>
                      last.handed = NoFrame /\ Redraws(last.steps) = 1

\* a synchronous tick whose grab returned None requested its redraw and left
\* the frame stored by an earlier tick
C24_Witness ==
    /\ obj = "App" /\ last.op = "on_timer" /\ last.path = "sync"
    /\ last.ret = NoFrame /\ last.grabs = 1 /\ Redraws(last.steps) = 1
    /\ gl.pending_frame # NoFrame

-----------------------------------------------------------------------------
(* Properties of the asynchronous cycle (Spec) *)

\* C25: over one asynchronous cycle no opacity is set on a companion that
\* was not visible when the tick began: the hide step skips it, and the
\* restore step sets the opacity of the windows the hide step hid and of no
\* other.
C25_HiddenCompanionUntouched ==
    obj = "App" =>
        /\ hist.cycle \in {"running", "done"} =>
              \A x \in Companions \ hist.vis_at_start : Len(hist.trace[x]) = 1
        /\ (last.op = "on_timer" /\ last.path = "async") =>
              Range(last.sets) = HiddenByCycle
        /\ (last.op = "finish_mss_capture" /\ hist.cycle = "done") =>
              Range(last.sets) = HiddenByCycle

\* C26: when the delayed callback calls grab, no window of the application
\* is on screen with an opacity above 0, whatever the user did between the
\* hide step and the grab.
C26_AllHiddenAtGrab ==
    (obj = "App" /\ last.op = "finish_mss_capture" /\ last.grabs = 1) => ~last.shown

\* C27: once close() has been called on the capture backend, grab is not
\* called on it again: a delayed capture scheduled before the shutdown does
\* not grab.
C27_NoGrabAfterClose ==
    (obj = "App" /\ last.grabs > 0) => hist.closes = 0

\* C28: whenever the re-entrancy guard is false, the overlay's own window and
\* both companions have opacity 1.0.
C28_IdleMeansOpaque ==
    (obj = "App" /\ ~gl.capturing) => \A x \in AppWindows : win[x].opacity = 1

\* a cycle that had set a companion's opacity to 0 has completed and cleared
\* the guard
C28_Witness ==
    /\ obj = "App" /\ last.op = "finish_mss_capture" /\ ~gl.capturing
    /\ hist.vis_at_start # {}
    /\ \A x \in AppWindows : win[x].opacity = 1

\* C29: every asynchronous cycle that starts completes, unless its grab
\* raised: the guard is cleared and the opacity of the three windows is 1.0
\* again, so that a later tick can start a new cycle.
C29_CycleCompletes ==
    (obj = "App" /\ gl.capturing)
        ~> \/ ~gl.capturing /\ \A x \in AppWindows : win[x].opacity = 1
           \/ hist.cycle = "raised"

\* a cycle whose grab returned None has completed
C29_Witness ==
    /\ obj = "App" /\ last.op = "finish_mss_capture" /\ last.ret = NoFrame
    /\ hist.cycle = "done" /\ ~gl.capturing

\* C30: a WindowCapture has at most one detection thread alive; a grab made
\* while one is alive starts none; and a grab joins no thread and takes no
\* lock, wherever the worker is.
C30_OneDetectionWorker ==
    (obj = "WindowCapture") =>
        /\ wc.workers <= 1
        /\ last.det.called =>
              /\ last.det.entry_alive => "Thread.start" \notin last.oscalls
              /\ last.oscalls \subseteq {"Thread.start", "grabWindow"}

\* a grab that was due to detect has returned while the worker of an earlier
\* request is inside its locked section, between its two assignments
C30_Witness ==
    /\ obj = "WindowCapture" /\ last.det.called /\ last.det.entry_alive
    /\ hist.since = 0 /\ wc.detect_pc = "publish_geom" /\ wc.workers = 1

====
